---- MODULE Spec2Model ----
(***************************************************************************)
(* The exam-markdown validation core of src/pages/api/exams/process.ts     *)
(* (normalizeTags, normalizeExamMetadataAndTags, assertIntegerPoints,      *)
(* assertNonEmptyAnswers) and the part of the POST handler that runs it    *)
(* and publishes the result.                                               *)
(*                                                                         *)
(* Text.  A document is a sequence of text units ("characters" of the      *)
(* model).  A unit is a piece of prose, the opening fence "```json\n", the *)
(* closing fence "\n```", or a lexical piece of JSON text: "{", "}", a     *)
(* run of whitespace, one `"key": value` member, or a whole non-object     *)
(* JSON value.  Offsets and lengths are counted in units, 0-based as in    *)
(* JavaScript.  The flag f of a unit says whether the value is written the *)
(* way JSON.stringify writes it; JSON.parse forgets f and the whitespace,  *)
(* JSON.stringify(x, null, 2) always writes f = TRUE and its own           *)
(* whitespace, so parse-then-stringify is not the identity on text.        *)
(*                                                                         *)
(* Numbers.  A JSON number is held as an integer count of halves (1.5 is   *)
(* 3, 2 is 4), so that fractional points exist and sums stay exact.        *)
(* Strings are sequences of one-character strings.                         *)
(***************************************************************************)
EXTENDS Integers, Sequences, FiniteSets, TLC

VARIABLES
    formattedExamMd,  \* the document handed to the core (POST, line 736)
    finalExamMd,      \* the document returned by normalizeExamMetadataAndTags
    pc,               \* position of the POST stream handler
    error,            \* the error caught by the handler's catch (line 881)
    examFile,         \* job directory: content of input/exam.md, <<>> if none
    jobDir,           \* "none", "created", "removed", "left"
    dockerRuns,       \* number of Docker jobs started
    prCreated,        \* number of pull requests created
    closed,           \* number of controller.close() calls
    rawTags,          \* normalizeTags: its argument
    tagsOut,          \* normalizeTags: its result
    tagsAgain,        \* normalizeTags: its result on tagsOut
    tagsPc,           \* normalizeTags driver: "idle", "call", "again", "done"
    now,              \* rate-limit.ts: the clock, Date.now() in ms
    lastCleanup,      \* rate-limit.ts: lastCleanup
    store,            \* rate-limit.ts: store, an entry or Absent for each key
    windowMs,         \* checkRateLimit: the windowMs every call passes
    maxRequests,      \* checkRateLimit: the maxRequests every call passes
    history,          \* the checkRateLimit calls made so far, oldest first
    plainStore,       \* the store of a limiter that never runs cleanup
    stdoutLeft,       \* docker-runner.ts: what the container has yet to write to stdout
    stderrLeft,       \* docker-runner.ts: what the container has yet to write to stderr
    stderr,           \* runDockerJob: stderr, the text collected at line 45
    logged,           \* the strings handed to log, oldest first
    jobPc,            \* runDockerJob: "idle", "call", "running", "resolved", "rejected", "caught"
    jobError          \* the message of the error runDockerJob rejected with

vars == <<formattedExamMd, finalExamMd, pc, error, examFile, jobDir,
          dockerRuns, prCreated, closed, rawTags, tagsOut, tagsAgain, tagsPc,
          now, lastCleanup, store, windowMs, maxRequests, history, plainStore,
          stdoutLeft, stderrLeft, stderr, logged, jobPc, jobError>>

coreVars == <<formattedExamMd, finalExamMd, pc, error, examFile, jobDir,
              dockerRuns, prCreated, closed>>

tagVars == <<rawTags, tagsOut, tagsAgain, tagsPc>>

rateVars == <<now, lastCleanup, store, windowMs, maxRequests, history, plainStore>>

dockerVars == <<stdoutLeft, stderrLeft, stderr, logged, jobPc, jobError>>

libVars == <<rateVars, dockerVars>>

-----------------------------------------------------------------------------
(* JSON values *)

Undefined == [t |-> "undefined", n |-> 0, s |-> <<>>, a |-> <<>>]
Null == [t |-> "null", n |-> 0, s |-> <<>>, a |-> <<>>]
Num(h) == [t |-> "number", n |-> h, s |-> <<>>, a |-> <<>>]
Int2(i) == Num(2 * i)
\* the number JSON.parse gives for a literal too large for a double, such as
\* 1e999: Infinity, held as a half-count no other number of the model has
Infinity == 999
Str(s) == [t |-> "string", n |-> 0, s |-> s, a |-> <<>>]
Bool(b) == [t |-> "boolean", n |-> IF b THEN 1 ELSE 0, s |-> <<>>, a |-> <<>>]
Arr(a) == [t |-> "array", n |-> 0, s |-> <<>>, a |-> a]
Obj == [t |-> "object", n |-> 0, s |-> <<>>, a |-> <<>>]

\* elements of an array: strings and numbers
EStr(s) == [t |-> "string", n |-> 0, s |-> s]
ENum(h) == [t |-> "number", n |-> h, s |-> <<>>]

-----------------------------------------------------------------------------
(* Text units *)

Unit(c, k, v, f) == [c |-> c, k |-> k, v |-> v, f |-> f]
Open == Unit("fence_open", "", Undefined, TRUE)
Close == Unit("fence_close", "", Undefined, TRUE)
LBrace == Unit("{", "", Undefined, TRUE)
RBrace == Unit("}", "", Undefined, TRUE)
WS == Unit("ws", "", Undefined, TRUE)
Junk == Unit("junk", "", Undefined, TRUE)
Prose(ch) == Unit("prose", ch, Undefined, TRUE)
Member(k, v, f) == Unit("member", k, v, f)
Lit(v, f) == Unit("value", "", v, f)

RECURSIVE Flatten(_)
Flatten(ss) == IF ss = <<>> THEN <<>> ELSE Head(ss) \o Flatten(Tail(ss))

\* String.prototype.slice with 0-based offsets
Slice(text, from, to) == SubSeq(text, from + 1, to)
SliceFrom(text, from) == SubSeq(text, from + 1, Len(text))

-----------------------------------------------------------------------------
(* JSON.parse and JSON.stringify *)

\* index of the first member with key k, 0 if none
RECURSIVE KeyIndex(_, _, _)
KeyIndex(m, k, i) ==
    IF i > Len(m) THEN 0
    ELSE IF m[i].k = k THEN i ELSE KeyIndex(m, k, i + 1)

HasKey(m, k) == KeyIndex(m, k, 1) # 0
Get(m, k) == IF HasKey(m, k) THEN m[KeyIndex(m, k, 1)].v ELSE Undefined

\* obj[k] = v: in place when the key exists, appended otherwise
SetKey(m, k, v) ==
    IF HasKey(m, k)
    THEN [m EXCEPT ![KeyIndex(m, k, 1)] = [k |-> k, v |-> v]]
    ELSE Append(m, [k |-> k, v |-> v])

RECURSIVE FoldMembers(_, _)
FoldMembers(units, m) ==
    IF units = <<>> THEN m
    ELSE FoldMembers(Tail(units), SetKey(m, Head(units).k, Head(units).v))

NotWS(u) == u.c # "ws"
IsMember(u) == u.c = "member"

\* the catch of a failed parse without its `continue`: parsed stays unset
ParseFailNotSkipped == [ok |-> TRUE, v |-> Null, m |-> <<>>]

ParseFail == [ok |-> FALSE, v |-> Undefined, m |-> <<>>]

\* JSON.parse of the text between the fences; ok = FALSE when it throws
JSONparse(body) ==
    LET toks == SelectSeq(body, NotWS) IN
    IF Len(toks) = 1 /\ toks[1].c = "value"
    THEN [ok |-> TRUE, v |-> toks[1].v, m |-> <<>>]
    ELSE IF /\ Len(toks) >= 2
            /\ toks[1] = LBrace
            /\ toks[Len(toks)] = RBrace
            /\ \A i \in 2..(Len(toks) - 1) : IsMember(toks[i])
    THEN [ok |-> TRUE, v |-> Obj,
          m |-> FoldMembers(SubSeq(toks, 2, Len(toks) - 1), <<>>)]
    ELSE ParseFail

\* the value JSON.stringify writes for a value: null for Infinity
Written(v) == IF v.t = "number" /\ v.n = Infinity THEN Null ELSE v

RECURSIVE MemberLines(_)
MemberLines(m) ==
    IF m = <<>> THEN <<>>
    ELSE <<WS, Member(Head(m).k, Written(Head(m).v), TRUE)>> \o MemberLines(Tail(m))

\* JSON.stringify(parsed, null, 2)
JSONstringify(p) ==
    IF p.v.t = "object"
    THEN IF p.m = <<>> THEN <<LBrace, RBrace>>
         ELSE <<LBrace>> \o MemberLines(p.m) \o <<WS, RBrace>>
    ELSE <<Lit(Written(p.v), TRUE)>>

\* `\`\`\`json\n${...}\n\`\`\``
FencedBlock(body) == <<Open>> \o body \o <<Close>>

-----------------------------------------------------------------------------
(* examMd.matchAll(/```json\n([\s\S]*?)\n```/g) *)

RECURSIVE IndexOf(_, _, _)
IndexOf(text, u, from) ==
    IF from > Len(text) THEN 0
    ELSE IF text[from] = u THEN from ELSE IndexOf(text, u, from + 1)

\* each match: index (0-based), len of match[0], body = match[1]
RECURSIVE MatchFrom(_, _)
MatchFrom(text, from) ==
    LET o == IndexOf(text, Open, from) IN
    IF o = 0 THEN <<>>
    ELSE LET e == IndexOf(text, Close, o + 1) IN
         IF e = 0 THEN <<>>
         ELSE <<[index |-> o - 1, len |-> e - o + 1,
                 body |-> SubSeq(text, o + 1, e - 1)]>>
              \o MatchFrom(text, e + 1)

matchAll(text) == MatchFrom(text, 1)

-----------------------------------------------------------------------------
(* normalizeTags *)

UpperChars == <<"A", "B", "C", "D", "E", "F", "G", "H", "I", "J", "K", "L", "M",
                "N", "O", "P", "Q", "R", "S", "T", "U", "V", "W", "X", "Y", "Z">>
LowerChars == <<"a", "b", "c", "d", "e", "f", "g", "h", "i", "j", "k", "l", "m",
                "n", "o", "p", "q", "r", "s", "t", "u", "v", "w", "x", "y", "z">>
DigitChars == <<"0", "1", "2", "3", "4", "5", "6", "7", "8", "9">>

Range(f) == {f[i] : i \in DOMAIN f}

\* the character class [\s_\/]
SeparatorChars == {" ", "\t", "\n", "\r", "_", "/"}
\* the character class [a-z0-9-]
IsTagChar(c) == c \in Range(LowerChars) \cup Range(DigitChars) \cup {"-"}
\* the character class of /-+/
HyphenChars == {"-"}

\* String.prototype.toLowerCase, one character
LowerChar(c) ==
    IF c \in Range(UpperChars)
    THEN LowerChars[CHOOSE i \in DOMAIN UpperChars : UpperChars[i] = c]
    ELSE c

toLowerCase(s) == [i \in DOMAIN s |-> LowerChar(s[i])]

\* s.replace(/[class]+/g, "-"): every maximal run of the class becomes one "-"
RECURSIVE ReplaceRuns(_, _, _)
ReplaceRuns(s, class, inRun) ==
    IF s = <<>> THEN <<>>
    ELSE IF Head(s) \in class
         THEN (IF inRun THEN <<>> ELSE <<"-">>) \o ReplaceRuns(Tail(s), class, TRUE)
         ELSE <<Head(s)>> \o ReplaceRuns(Tail(s), class, FALSE)

\* s.replace(/^-+|-+$/g, "")
RECURSIVE TrimLeadingHyphens(_)
TrimLeadingHyphens(s) ==
    IF s # <<>> /\ Head(s) = "-" THEN TrimLeadingHyphens(Tail(s)) ELSE s

RECURSIVE TrimTrailingHyphens(_)
TrimTrailingHyphens(s) ==
    IF s # <<>> /\ s[Len(s)] = "-"
    THEN TrimTrailingHyphens(SubSeq(s, 1, Len(s) - 1))
    ELSE s

\* lines 179-183
CleanStep1(tag) == toLowerCase(tag)
CleanStep2(s) == ReplaceRuns(s, SeparatorChars, FALSE)
\* step 3 left out: characters outside [a-z0-9-] are kept
CleanStep3Skipped(s) == s
CleanStep3(s) == SelectSeq(s, IsTagChar)
\* step 4 left out: repeated hyphens are kept
CleanStep4Skipped(s) == s
CleanStep4(s) == ReplaceRuns(s, HyphenChars, FALSE)
CleanStep5(s) == TrimTrailingHyphens(TrimLeadingHyphens(s))

\* the steps in another order: the strip of step 3 after the trim of step 5
CleanTagStripLast(tag) ==
    CleanStep3(CleanStep5(CleanStep4(CleanStep2(CleanStep1(tag)))))

\* the steps in another order: the trim of step 5 before the strip of step 3
CleanTagTrimFirst(tag) ==
    CleanStep4(CleanStep3(CleanStep5(CleanStep2(CleanStep1(tag)))))

CleanTag(tag) == CleanStep5(CleanStep4(CleanStep3(CleanStep2(CleanStep1(tag)))))

\* the loop of lines 174-193 without the test of `seen`: every non-empty
\* cleaned tag is pushed
RECURSIVE TagLoopNoSeen(_, _)
TagLoopNoSeen(elems, normalized) ==
    IF elems = <<>> THEN normalized
    ELSE LET tag == Head(elems)
             cleaned == CleanTag(tag.s)
         IN IF tag.t # "string" THEN TagLoopNoSeen(Tail(elems), normalized)
            ELSE IF cleaned = <<>> THEN TagLoopNoSeen(Tail(elems), normalized)
            ELSE TagLoopNoSeen(Tail(elems), Append(normalized, cleaned))

\* the loop of lines 174-193: normalized doubles as the set `seen`
RECURSIVE TagLoop(_, _)
TagLoop(elems, normalized) ==
    IF elems = <<>> THEN normalized
    ELSE LET tag == Head(elems)
             cleaned == CleanTag(tag.s)
         IN IF tag.t # "string" THEN TagLoop(Tail(elems), normalized)
            ELSE IF cleaned = <<>> THEN TagLoop(Tail(elems), normalized)
            ELSE IF cleaned \in Range(normalized)
                 THEN TagLoop(Tail(elems), normalized)
                 ELSE TagLoop(Tail(elems), Append(normalized, cleaned))

Misc == <<"m", "i", "s", "c">>

StrElems(ss) == [i \in DOMAIN ss |-> EStr(ss[i])]

\* normalizeTags(rawTags): the returned string[] as a sequence of strings
normalizeTags(raw) ==
    IF raw.t # "array" THEN <<Misc>>
    ELSE LET normalized == TagLoop(raw.a, <<>>)
         IN IF Len(normalized) > 0 THEN normalized ELSE <<Misc>>

\* JSON.stringify of a value, as far as comparing two results goes:
\* undefined for undefined, else the text of the value in canonical form
StringifyValue(v) == Lit(Written(v), TRUE)

-----------------------------------------------------------------------------
(* Errors *)

NoError == [kind |-> "none", id |-> <<>>, pts |-> 0, ids |-> <<>>]
\* hasOwnProperty.call(null, ...) and, in this strict-mode module, an
\* assignment to a property of a primitive
TypeError == [kind |-> "TypeError", id |-> <<>>, pts |-> 0, ids |-> <<>>]
\* `Non-integer points for problem_id ${problemId}: ${points}`
NonIntegerError(id, h) ==
    [kind |-> "NonIntegerPoints", id |-> id, pts |-> h, ids |-> <<>>]
\* `Missing or empty answers for problem_id(s): ${missingAnswers.join(", ")}`
MissingAnswersError(ids) ==
    [kind |-> "MissingAnswers", id |-> <<>>, pts |-> 0, ids |-> ids]
\* errors of the steps after the core
StageError(kind) == [kind |-> kind, id |-> <<>>, pts |-> 0, ids |-> <<>>]

-----------------------------------------------------------------------------
(* JavaScript conversions *)

NaN == [fin |-> FALSE, n |-> 0]
Fin(h) == [fin |-> TRUE, n |-> h]
\* Number.isFinite of a number
IsFinite(h) == h # Infinity
\* a number as Number() returns it
NumberOf(h) == IF IsFinite(h) THEN Fin(h) ELSE [fin |-> FALSE, n |-> h]

IsWhitespace(c) == c \in {" ", "\t", "\n", "\r"}

RECURSIVE TrimStart(_)
TrimStart(s) == IF s # <<>> /\ IsWhitespace(Head(s)) THEN TrimStart(Tail(s)) ELSE s

RECURSIVE TrimEnd(_)
TrimEnd(s) ==
    IF s # <<>> /\ IsWhitespace(s[Len(s)])
    THEN TrimEnd(SubSeq(s, 1, Len(s) - 1))
    ELSE s

\* String.prototype.trim
trim(s) == TrimEnd(TrimStart(s))

DigitValue(c) == (CHOOSE i \in DOMAIN DigitChars : DigitChars[i] = c) - 1

RECURSIVE Decimal(_, _)
Decimal(s, acc) ==
    IF s = <<>> THEN acc ELSE Decimal(Tail(s), 10 * acc + DigitValue(Head(s)))

\* Number(string): blank is 0, a run of digits is its value, the rest NaN
\* (signs, fractions, exponents and hex are not written by the model's inputs)
StringToNumber(s) ==
    LET t == trim(s) IN
    IF t = <<>> THEN Fin(0)
    ELSE IF \A i \in DOMAIN t : t[i] \in Range(DigitChars)
         THEN Fin(2 * Decimal(t, 0))
         ELSE NaN

\* Number(value)
ToNumber(v) ==
    CASE v.t = "number" -> NumberOf(v.n)
      [] v.t = "string" -> StringToNumber(v.s)
      [] v.t = "null" -> Fin(0)
      [] v.t = "boolean" -> Fin(2 * v.n)
      [] v.t = "array" ->
            IF v.a = <<>> THEN Fin(0)
            ELSE IF Len(v.a) = 1
                 THEN (IF v.a[1].t = "number" THEN Fin(v.a[1].n)
                       ELSE StringToNumber(v.a[1].s))
                 ELSE NaN
      [] OTHER -> NaN

\* the half-count of a number written in decimal: 1.5 is "1.5", 2 is "2"
NumberToString(h) ==
    LET whole == h \div 2
        digits == IF whole >= 10
                  THEN <<DigitChars[(whole \div 10) + 1], DigitChars[(whole % 10) + 1]>>
                  ELSE <<DigitChars[whole + 1]>>
    IN IF ~IsFinite(h) THEN <<"I", "n", "f", "i", "n", "i", "t", "y">>
       ELSE IF h % 2 = 0 THEN digits ELSE digits \o <<".", "5">>

\* String(value) / `${value}` for the values a problem_id takes
StringOf(v) ==
    CASE v.t = "string" -> v.s
      [] v.t = "number" -> NumberToString(v.n)
      [] v.t = "null" -> <<"n", "u", "l", "l">>
      [] v.t = "undefined" -> <<"u", "n", "d", "e", "f", "i", "n", "e", "d">>
      [] v.t = "boolean" -> IF v.n = 1 THEN <<"t", "r", "u", "e">>
                            ELSE <<"f", "a", "l", "s", "e">>
      [] OTHER -> <<"[", "o", "b", "j", "e", "c", "t", "]">>

\* Number.isInteger
IsInteger(h) == IsFinite(h) /\ h % 2 = 0

\* truthiness of a parsed JSON value
Truthy(v) ==
    CASE v.t = "number" -> v.n # 0
      [] v.t = "string" -> v.s # <<>>
      [] v.t = "boolean" -> v.n = 1
      [] v.t \in {"null", "undefined"} -> FALSE
      [] OTHER -> TRUE

\* a value whose properties cannot be assigned in strict mode
IsPrimitive(v) == v.t \in {"number", "string", "boolean"}

\* Object.prototype.hasOwnProperty.call(parsed, key); throws on null
HasOwnThrows(p) == p.v.t = "null"
hasOwnProperty(p, key) == p.v.t = "object" /\ HasKey(p.m, key)

\* parsed[key]
Prop(p, key) == IF p.v.t = "object" THEN Get(p.m, key) ELSE Undefined

-----------------------------------------------------------------------------
(* normalizeExamMetadataAndTags *)

NoMatch == [index |-> 0, len |-> 0, body |-> <<>>]

LoopStart ==
    [questionCount |-> 0, totalPoints |-> 0, updates |-> <<>>,
     hasMetadata |-> FALSE, metadata |-> ParseFail, metadataMatch |-> NoMatch,
     threw |-> FALSE]

\* lines 244-253: the update of one Question Block, <<>> when tags are unchanged
TagUpdate(match, parsed) ==
    LET normalizedTags == Arr(StrElems(normalizeTags(Prop(parsed, "tags"))))
        tagsChanged ==
            StringifyValue(normalizedTags) # StringifyValue(Prop(parsed, "tags"))
        newParsed == [parsed EXCEPT !.m = SetKey(parsed.m, "tags", normalizedTags)]
        newBlock == FencedBlock(JSONstringify(newParsed))
        start == match.index
    IN IF tagsChanged
       THEN <<[start |-> start, end |-> start + match.len, text |-> newBlock]>>
       ELSE <<>>

\* line 240 without Number.isFinite
CountsPointsNotFiniteToo(v) == v.t = "number"

\* line 240
CountsPoints(v) == v.t = "number" /\ IsFinite(v.n)

\* line 229 with the position test dropped: any index will do
IsFirstMatchAnywhere(index) == TRUE

\* line 229: index === 0
IsFirstMatch(index) == index = 0

\* lines 213-254: the loop over the matches, from the 0-based position index
RECURSIVE BlockLoop(_, _, _)
BlockLoop(matches, index, st) ==
    IF index >= Len(matches) \/ st.threw THEN st
    ELSE LET match == matches[index + 1]
             parsed == JSONparse(match.body)
             hasProblemId == hasOwnProperty(parsed, "problem_id")
             points == Prop(parsed, "points")
         IN IF ~parsed.ok THEN BlockLoop(matches, index + 1, st)
            ELSE IF HasOwnThrows(parsed) THEN [st EXCEPT !.threw = TRUE]
            ELSE IF IsFirstMatch(index) /\ ~hasProblemId
                 THEN BlockLoop(matches, index + 1,
                                [st EXCEPT !.hasMetadata = TRUE,
                                           !.metadata = parsed,
                                           !.metadataMatch = match])
            ELSE IF ~hasProblemId THEN BlockLoop(matches, index + 1, st)
            ELSE BlockLoop(matches, index + 1,
                    [st EXCEPT
                       !.questionCount = @ + 1,
                       !.totalPoints = IF CountsPoints(points) THEN @ + points.n ELSE @,
                       !.updates = @ \o TagUpdate(match, parsed)])

\* lines 258-262 with != for !==: a string that converts to the count is kept
NumQuestionsStaleLoose(metadata, questionCount) ==
    ToNumber(Prop(metadata, "num_questions")) # Fin(2 * questionCount)

\* lines 258-262
NumQuestionsStale(metadata, questionCount) ==
    Prop(metadata, "num_questions") # Int2(questionCount)

\* lines 264-267 without the comparison: only a non-number is stale
ScoreTotalStaleNotFiniteOnly(metadata, totalPoints) ==
    LET scoreTotalRaw == Prop(metadata, "score_total")
        scoreTotal == IF scoreTotalRaw.t = "number" THEN NumberOf(scoreTotalRaw.n)
                      ELSE ToNumber(scoreTotalRaw)
    IN ~scoreTotal.fin

\* lines 264-267
ScoreTotalStale(metadata, totalPoints) ==
    LET scoreTotalRaw == Prop(metadata, "score_total")
        scoreTotal == IF scoreTotalRaw.t = "number" THEN NumberOf(scoreTotalRaw.n)
                      ELSE ToNumber(scoreTotalRaw)
    IN ~scoreTotal.fin \/ scoreTotal.n # totalPoints

\* metadata[key] = v: a property of an array is not written by JSON.stringify
AssignProp(p, key, v) ==
    IF p.v.t = "object" THEN [p EXCEPT !.m = SetKey(p.m, key, v)] ELSE p

\* line 256
RepairsMetadata(st) ==
    st.hasMetadata /\ Truthy(st.metadata.v) /\ st.questionCount > 0

\* lines 256-281: the metadata update; threw when the assignment throws
MetadataRepair(st) ==
    IF ~RepairsMetadata(st) THEN st
    ELSE LET staleN == NumQuestionsStale(st.metadata, st.questionCount)
             staleS == ScoreTotalStale(st.metadata, st.totalPoints)
             m1 == IF staleN
                   THEN AssignProp(st.metadata, "num_questions", Int2(st.questionCount))
                   ELSE st.metadata
             m2 == IF staleS
                   THEN AssignProp(m1, "score_total", Num(st.totalPoints))
                   ELSE m1
             start == st.metadataMatch.index
         IN IF ~(staleN \/ staleS) THEN st
            ELSE IF IsPrimitive(st.metadata.v) THEN [st EXCEPT !.threw = TRUE]
            ELSE [st EXCEPT !.updates =
                    Append(@, [start |-> start,
                               end |-> start + st.metadataMatch.len,
                               text |-> FencedBlock(JSONstringify(m2))])]

\* updates.sort((a, b) => a.start - b.start): insertion into ascending order
RECURSIVE InsertAsc(_, _)
InsertAsc(u, sorted) ==
    IF sorted = <<>> THEN <<u>>
    ELSE IF u.start < Head(sorted).start THEN <<u>> \o sorted
    ELSE <<Head(sorted)>> \o InsertAsc(u, Tail(sorted))

\* updates.sort((a, b) => b.start - a.start): insertion into descending order
RECURSIVE InsertDesc(_, _)
InsertDesc(u, sorted) ==
    IF sorted = <<>> THEN <<u>>
    ELSE IF u.start > Head(sorted).start THEN <<u>> \o sorted
    ELSE <<Head(sorted)>> \o InsertDesc(u, Tail(sorted))

\* no sort: the updates applied in the order they were collected
SortUpdatesSkipped(updates) == updates

RECURSIVE SortUpdates(_)
SortUpdates(updates) ==
    IF updates = <<>> THEN <<>>
    ELSE InsertDesc(updates[Len(updates)],
                    SortUpdates(SubSeq(updates, 1, Len(updates) - 1)))

\* lines 290-295
RECURSIVE ApplyUpdates(_, _)
ApplyUpdates(updatedExamMd, sortedUpdates) ==
    IF sortedUpdates = <<>> THEN updatedExamMd
    ELSE LET update == Head(sortedUpdates)
         IN ApplyUpdates(Slice(updatedExamMd, 0, update.start)
                           \o update.text
                           \o SliceFrom(updatedExamMd, update.end),
                         Tail(sortedUpdates))

Returned(text) == [ok |-> TRUE, text |-> text, err |-> NoError]
Threw(err) == [ok |-> FALSE, text |-> <<>>, err |-> err]

\* the state of the function's locals at line 283
Collected(examMd) == MetadataRepair(BlockLoop(matchAll(examMd), 0, LoopStart))

normalizeExamMetadataAndTags(examMd) ==
    LET matches == matchAll(examMd)
        st == Collected(examMd)
    IN IF Len(matches) = 0 THEN Returned(examMd)
       ELSE IF st.threw THEN Threw(TypeError)
       ELSE IF Len(st.updates) = 0 THEN Returned(examMd)
       ELSE Returned(ApplyUpdates(examMd, SortUpdates(st.updates)))

-----------------------------------------------------------------------------
(* assertIntegerPoints, assertNonEmptyAnswers: the error thrown, or NoError *)

\* line 126 with Number.isFinite for Number.isInteger: a fraction passes
PointsNotFinite(points) == points.t = "number" /\ ~IsFinite(points.n)

\* line 126
PointsNotInteger(points) == points.t = "number" /\ ~IsInteger(points.n)

RECURSIVE IntegerPointsLoop(_, _)
IntegerPointsLoop(matches, i) ==
    IF i > Len(matches) THEN NoError
    ELSE LET parsed == JSONparse(matches[i].body)
             points == Prop(parsed, "points")
         IN IF ~parsed.ok THEN IntegerPointsLoop(matches, i + 1)
            ELSE IF HasOwnThrows(parsed) THEN TypeError
            ELSE IF ~hasOwnProperty(parsed, "problem_id")
                 THEN IntegerPointsLoop(matches, i + 1)
            ELSE IF PointsNotInteger(points)
                 THEN NonIntegerError(StringOf(Prop(parsed, "problem_id")), points.n)
                 ELSE IntegerPointsLoop(matches, i + 1)

assertIntegerPoints(examMd) == IntegerPointsLoop(matchAll(examMd), 1)

\* line 154 without trim()
AnswerMissingUntrimmed(answer) == answer.t # "string" \/ Len(answer.s) = 0

\* line 154
AnswerMissing(answer) == answer.t # "string" \/ Len(trim(answer.s)) = 0

\* String(parsed.problem_id ?? "?")
MissingId(problemId) ==
    IF problemId.t \in {"null", "undefined"} THEN <<"?">> ELSE StringOf(problemId)

\* lines 140-157: missingAnswers, or threw
RECURSIVE AnswersLoop(_, _, _)
AnswersLoop(matches, i, missingAnswers) ==
    IF i > Len(matches) THEN [threw |-> FALSE, missingAnswers |-> missingAnswers]
    ELSE LET parsed == JSONparse(matches[i].body)
         IN IF ~parsed.ok THEN AnswersLoop(matches, i + 1, missingAnswers)
            ELSE IF HasOwnThrows(parsed)
                 THEN [threw |-> TRUE, missingAnswers |-> missingAnswers]
            ELSE IF ~hasOwnProperty(parsed, "problem_id")
                 THEN AnswersLoop(matches, i + 1, missingAnswers)
            ELSE IF AnswerMissing(Prop(parsed, "answer"))
                 THEN AnswersLoop(matches, i + 1,
                        Append(missingAnswers, MissingId(Prop(parsed, "problem_id"))))
                 ELSE AnswersLoop(matches, i + 1, missingAnswers)

assertNonEmptyAnswers(examMd) ==
    LET r == AnswersLoop(matchAll(examMd), 1, <<>>)
    IN IF r.threw THEN TypeError
       ELSE IF Len(r.missingAnswers) > 0 THEN MissingAnswersError(r.missingAnswers)
       ELSE NoError

-----------------------------------------------------------------------------
(* lib/rate-limit.ts *)

\* the client keys of the model
Keys == {"a", "b"}

\* store.get(key) is undefined
Absent == [present |-> FALSE, count |-> 0, resetAt |-> 0]
\* { count, resetAt }
Entry(count, resetAt) == [present |-> TRUE, count |-> count, resetAt |-> resetAt]

\* new Map(): line 6
EmptyStore == [k \in Keys |-> Absent]

\* line 8
CLEANUP_INTERVAL == 60000

\* line 16 without its test: every entry is deleted
ExpiredOrNot(t, entry) == TRUE

\* line 16: now >= entry.resetAt
Expired(t, entry) == t >= entry.resetAt

\* lines 11-20: the store and lastCleanup that cleanup() leaves at time t
cleanup(st, last, t) ==
    IF t - last < CLEANUP_INTERVAL
    THEN [store |-> st, lastCleanup |-> last]
    ELSE [store |-> [k \in Keys |->
                       IF st[k].present /\ Expired(t, st[k]) THEN Absent ELSE st[k]],
          lastCleanup |-> t]

\* line 33: now >= entry.resetAt
WindowOver(t, entry) == t >= entry.resetAt

\* line 38 with <= for <
UnderLimitInclusive(entry, max) == entry.count <= max

\* line 38: entry.count < maxRequests
UnderLimit(entry, max) == entry.count < max

\* line 43 with Math.floor for Math.ceil
FloorSeconds(ms) == ms \div 1000

\* line 43: Math.ceil(ms / 1000)
CeilSeconds(ms) == (ms + 999) \div 1000

\* the returned object: retryAfter is <<>> when the property is not set
RateAnswer(allowed, retryAfter) == [allowed |-> allowed, retryAfter |-> retryAfter]

\* lines 29-44: the store left and the object returned at time t
checkStore(st, t, key, window, max) ==
    LET entry == st[key] IN
    IF ~entry.present \/ WindowOver(t, entry)
    THEN [store |-> [st EXCEPT ![key] = Entry(1, t + window)],
          answer |-> RateAnswer(TRUE, <<>>)]
    ELSE IF UnderLimit(entry, max)
    THEN [store |-> [st EXCEPT ![key] = Entry(entry.count + 1, entry.resetAt)],
          answer |-> RateAnswer(TRUE, <<>>)]
    ELSE [store |-> st,
          answer |-> RateAnswer(FALSE, <<CeilSeconds(entry.resetAt - t)>>)]

\* the limiter before its first call; windowMs and maxRequests of no call
RateIdle ==
    /\ now = 0
    /\ lastCleanup = 0
    /\ store = EmptyStore
    /\ windowMs = 0
    /\ maxRequests = 0
    /\ history = <<>>
    /\ plainStore = EmptyStore

-----------------------------------------------------------------------------
(* lib/docker-runner.ts *)

\* the GitHub token the handler passes in env and in redact (line 839)
githubToken == <<"t", "k">>

\* (params.redact ?? []).filter((value) => value.length > 0)
redactions == SelectSeq(<<githubToken>>, LAMBDA value : Len(value) > 0)

\* text.split(/\r?\n/) for text without "\r": the lines, empty ones included
RECURSIVE SplitLines(_, _)
SplitLines(text, line) ==
    IF text = <<>> THEN <<line>>
    ELSE IF Head(text) = "\n" THEN <<line>> \o SplitLines(Tail(text), <<>>)
    ELSE SplitLines(Tail(text), Append(line, Head(text)))

\* s.split(value).join("***")
RECURSIVE SplitJoin(_, _)
SplitJoin(s, value) ==
    IF Len(s) < Len(value) THEN s
    ELSE IF SubSeq(s, 1, Len(value)) = value
         THEN <<"*", "*", "*">> \o SplitJoin(SubSeq(s, Len(value) + 1, Len(s)), value)
         ELSE <<Head(s)>> \o SplitJoin(Tail(s), value)

\* lines 34-37
RECURSIVE Sanitize(_, _)
Sanitize(line, values) ==
    IF values = <<>> THEN line
    ELSE Sanitize(SplitJoin(line, Head(values)), Tail(values))

\* lines 32-40: the strings pipe hands to log for the lines of one chunk
RECURSIVE PipeLines(_)
PipeLines(lines) ==
    IF lines = <<>> THEN <<>>
    ELSE (IF Len(trim(Head(lines))) > 0
          THEN <<Sanitize(Head(lines), redactions)>> ELSE <<>>)
         \o PipeLines(Tail(lines))

\* lines 30-41
pipe(chunk) == PipeLines(SplitLines(chunk, <<>>))

\* lines 11-13
VercelMessage == <<"Docker is not available in Vercel serverless functions.">>
\* the message of the error that spawn emits
SpawnMessage == <<"spawn docker ENOENT">>

\* lines 57-58: `Docker job failed with exit code ${code}${suffix}`
FailedMessage(code, text) ==
    <<"Docker job failed with exit code ", code>>
        \o (IF Len(trim(text)) > 0 THEN <<":", " ">> \o trim(text) ELSE <<>>)

\* process.ts line 882: `\nError: ${error}`
ErrorLine(message) == <<"\n", "Error: ", "Error: ">> \o message

\* no Docker job
DockerIdle ==
    /\ stdoutLeft = <<>>
    /\ stderrLeft = <<>>
    /\ stderr = <<>>
    /\ logged = <<>>
    /\ jobPc = "idle"
    /\ jobError = <<>>

-----------------------------------------------------------------------------
(* Input documents *)

MaxSegments == 3

KV(k, v) == [k |-> k, v |-> v]
Present(kvs) == SelectSeq(kvs, LAMBDA kv : kv.v # Undefined)

\* the members of a question object, absent fields left out
Question(id, points, tags, answer) ==
    Present(<<KV("problem_id", id), KV("points", points),
              KV("tags", tags), KV("answer", answer)>>)

\* the members of an exam metadata object
Metadata(scoreTotal, numQuestions) ==
    Present(<<KV("exam_id", Str(<<"e">>)), KV("score_total", scoreTotal),
              KV("num_questions", numQuestions)>>)

\* the text JSON.stringify(x, null, 2) writes for an object
Pretty(m) == JSONstringify([ok |-> TRUE, v |-> Obj, m |-> m])
\* the same object on one line, its values not in canonical form
Compact(m) ==
    <<LBrace>> \o [i \in DOMAIN m |-> Member(m[i].k, m[i].v, FALSE)] \o <<RBrace>>

Tags(ss) == Arr(StrElems(ss))
CleanTags == Tags(<<<<"a">>>>)
DirtyTags == Tags(<<<<"A", "_", "b">>, <<"a", "-", "b">>>>)
JunkTags == Tags(<<<<"!">>>>)
MixedTags == Arr(<<EStr(<<"!", "-", "a">>), ENum(2)>>)
Answer == Str(<<"x">>)
Blank == Str(<<" ">>)
Id(c) == Str(<<c>>)

\* question objects: valid and canonical; valid after tag cleaning, on one
\* line; fractional points and tags that are no list; blank answer and tags
\* that clean to nothing;
\* every field but problem_id missing; a null id, points held as a string;
\* points written 1e999, on one line
QuestionBodies ==
    { Pretty(Question(Id("1"), Int2(1), CleanTags, Answer)),
      Compact(Question(Id("2"), Int2(2), DirtyTags, Answer)),
      Pretty(Question(Id("3"), Num(3), Str(<<"a">>), Answer)),
      Pretty(Question(Id("4"), Int2(1), JunkTags, Blank)),
      Compact(Question(Id("5"), Undefined, Undefined, Undefined)),
      Pretty(Question(Null, Str(<<"1">>), MixedTags, Answer)),
      Compact(Question(Id("7"), Num(Infinity), CleanTags, Answer)) }

\* metadata objects: right for one 1-point question, on one line; stale, on
\* one line; counters held as strings
MetadataBodies ==
    { Compact(Metadata(Int2(1), Int2(1))),
      Compact(Metadata(Int2(50), Int2(5))),
      Pretty(Metadata(Str(<<"3">>), Str(<<"2">>))) }

\* JSON that is no object, and text that is no JSON
OtherBodies ==
    { <<Lit(Null, TRUE)>>,
      <<Lit(Int2(5), TRUE)>>,
      <<Lit(Arr(<<>>), FALSE)>>,
      <<LBrace, Junk, RBrace>> }

\* a segment is a fenced block, or an opening fence that is never closed
Segments ==
    {FencedBlock(b) : b \in QuestionBodies \cup MetadataBodies \cup OtherBodies}
        \cup {<<Open, Junk>>}

ProseNames == <<"p1", "p2", "p3", "p4", "p5", "p6", "p7", "p8">>

\* prose, then each segment followed by more prose
RenderDoc(segs) ==
    <<Prose("p0")>>
        \o Flatten([i \in DOMAIN segs |-> segs[i] \o <<Prose(ProseNames[i])>>])

InputDocs ==
    {RenderDoc(segs) : segs \in UNION {[1..n -> Segments] : n \in 0..MaxSegments}}

-----------------------------------------------------------------------------
(* The stream handler of POST, lines 750-884 *)

Init ==
    /\ formattedExamMd \in InputDocs
    /\ finalExamMd = <<>>
    /\ pc = "normalize"
    /\ error = NoError
    /\ examFile = <<>>
    /\ jobDir = "none"
    /\ dockerRuns = 0
    /\ prCreated = 0
    /\ closed = 0
    /\ rawTags = Undefined
    /\ tagsOut = <<>>
    /\ tagsAgain = <<>>
    /\ tagsPc = "idle"
    /\ RateIdle
    /\ DockerIdle

\* line 750
Normalize ==
    /\ pc = "normalize"
    /\ LET r == normalizeExamMetadataAndTags(formattedExamMd)
       IN IF r.ok
          THEN /\ finalExamMd' = r.text
               /\ pc' = "assertIntegerPoints"
               /\ error' = error
          ELSE /\ finalExamMd' = finalExamMd
               /\ pc' = "catch"
               /\ error' = r.err
    /\ UNCHANGED <<formattedExamMd, examFile, jobDir, dockerRuns, prCreated, closed>>
    /\ UNCHANGED tagVars
    /\ UNCHANGED libVars

\* line 755
AssertIntegerPoints ==
    /\ pc = "assertIntegerPoints"
    /\ LET e == assertIntegerPoints(finalExamMd)
       IN /\ error' = e
          /\ pc' = IF e = NoError THEN "assertNonEmptyAnswers" ELSE "catch"
    /\ UNCHANGED <<formattedExamMd, finalExamMd, examFile, jobDir, dockerRuns,
                   prCreated, closed>>
    /\ UNCHANGED tagVars
    /\ UNCHANGED libVars

\* line 756 with the guard's error dropped: the handler goes on regardless
AssertNonEmptyAnswersSwallowed ==
    /\ pc = "assertNonEmptyAnswers"
    /\ error' = error
    /\ pc' = "mkdtemp"
    /\ UNCHANGED <<formattedExamMd, finalExamMd, examFile, jobDir, dockerRuns,
                   prCreated, closed>>
    /\ UNCHANGED tagVars
    /\ UNCHANGED libVars

\* line 756
AssertNonEmptyAnswers ==
    /\ pc = "assertNonEmptyAnswers"
    /\ LET e == assertNonEmptyAnswers(finalExamMd)
       IN /\ error' = e
          /\ pc' = IF e = NoError THEN "mkdtemp" ELSE "catch"
    /\ UNCHANGED <<formattedExamMd, finalExamMd, examFile, jobDir, dockerRuns,
                   prCreated, closed>>
    /\ UNCHANGED tagVars
    /\ UNCHANGED libVars

\* lines 797-799, before the try of line 801: mkdtemp makes the job
\* directory and mkdir its input directory; when mkdir throws the job
\* directory exists already and no finally block covers it
MakeJobDir ==
    /\ pc = "mkdtemp"
    /\ \E outcome \in {"mkdtemp throws", "mkdir throws", "made"} :
         IF outcome = "made"
         THEN /\ pc' = "writeFile"
              /\ error' = error
              /\ jobDir' = "created"
         ELSE /\ pc' = "catch"
              /\ error' = StageError("fs")
              /\ jobDir' = IF outcome = "mkdir throws" THEN "created" ELSE jobDir
    /\ UNCHANGED <<formattedExamMd, finalExamMd, examFile, dockerRuns, prCreated,
                   closed>>
    /\ UNCHANGED tagVars
    /\ UNCHANGED libVars

\* lines 802-807 writing formattedExamMd: the document before normalization
StageFilesUnnormalized ==
    /\ pc = "writeFile"
    /\ \E fails \in BOOLEAN :
         IF fails
         THEN /\ pc' = "finally"
              /\ error' = StageError("fs")
              /\ examFile' = examFile
         ELSE /\ pc' = "runDockerJob"
              /\ error' = error
              /\ examFile' = formattedExamMd
    /\ UNCHANGED <<formattedExamMd, finalExamMd, jobDir, dockerRuns, prCreated,
                   closed>>
    /\ UNCHANGED tagVars
    /\ UNCHANGED libVars

\* lines 802-823: exam.md and the other inputs are written, or fs throws
StageFiles ==
    /\ pc = "writeFile"
    /\ \E fails \in BOOLEAN :
         IF fails
         THEN /\ pc' = "finally"
              /\ error' = StageError("fs")
              /\ examFile' = examFile
         ELSE /\ pc' = "runDockerJob"
              /\ error' = error
              /\ examFile' = finalExamMd
    /\ UNCHANGED <<formattedExamMd, finalExamMd, jobDir, dockerRuns, prCreated,
                   closed>>
    /\ UNCHANGED tagVars
    /\ UNCHANGED libVars

\* lines 825-840: the container runs and exits with code 0 or not
RunDockerJob ==
    /\ pc = "runDockerJob"
    /\ dockerRuns' = dockerRuns + 1
    /\ \E exitOk \in BOOLEAN :
         error' = IF exitOk THEN error ELSE StageError("docker")
    /\ pc' = "finally"
    /\ UNCHANGED <<formattedExamMd, finalExamMd, examFile, jobDir, prCreated,
                   closed>>
    /\ UNCHANGED tagVars
    /\ UNCHANGED libVars

\* the finally block without its fs.rm
RemoveJobDirSkipped ==
    /\ pc = "finally"
    /\ jobDir' = jobDir
    /\ pc' = IF error = NoError THEN "createPullRequest" ELSE "catch"
    /\ UNCHANGED <<formattedExamMd, finalExamMd, examFile, error, dockerRuns,
                   prCreated, closed>>
    /\ UNCHANGED tagVars
    /\ UNCHANGED libVars

\* lines 841-845: fs.rm in the finally block, its own failure swallowed; a
\* directory whose removal failed is "left"
RemoveJobDir ==
    /\ pc = "finally"
    /\ \E fails \in BOOLEAN : jobDir' = IF fails THEN "left" ELSE "removed"
    /\ pc' = IF error = NoError THEN "createPullRequest" ELSE "catch"
    /\ UNCHANGED <<formattedExamMd, finalExamMd, examFile, error, dockerRuns,
                   prCreated, closed>>
    /\ UNCHANGED tagVars
    /\ UNCHANGED libVars

\* lines 847-875
CreatePullRequest ==
    /\ pc = "createPullRequest"
    /\ \E fails \in BOOLEAN :
         IF fails
         THEN /\ pc' = "catch"
              /\ error' = StageError("pr")
              /\ prCreated' = prCreated
         ELSE /\ pc' = "done"
              /\ error' = error
              /\ prCreated' = prCreated + 1
    /\ UNCHANGED <<formattedExamMd, finalExamMd, examFile, jobDir, dockerRuns,
                   closed>>
    /\ UNCHANGED tagVars
    /\ UNCHANGED libVars

\* line 878: `Done in ${elapsed}s`
DoneLine == <<"Done in ">>

\* lines 877-880: the success line is logged, then controller.close()
Finish ==
    /\ pc = "done"
    /\ logged' = Append(logged, DoneLine)
    /\ closed' = closed + 1
    /\ pc' = "end"
    /\ UNCHANGED <<formattedExamMd, finalExamMd, examFile, error, jobDir,
                   dockerRuns, prCreated>>
    /\ UNCHANGED tagVars
    /\ UNCHANGED rateVars
    /\ UNCHANGED <<stdoutLeft, stderrLeft, stderr, jobPc, jobError>>

\* lines 881-884: the error line is logged, then controller.close()
Catch ==
    /\ pc = "catch"
    /\ logged' = Append(logged, ErrorLine(<<error.kind>>))
    /\ closed' = closed + 1
    /\ pc' = "failed"
    /\ UNCHANGED <<formattedExamMd, finalExamMd, examFile, error, jobDir,
                   dockerRuns, prCreated>>
    /\ UNCHANGED tagVars
    /\ UNCHANGED rateVars
    /\ UNCHANGED <<stdoutLeft, stderrLeft, stderr, jobPc, jobError>>

Next ==
    \/ Normalize
    \/ AssertIntegerPoints
    \/ AssertNonEmptyAnswers
    \/ MakeJobDir
    \/ StageFiles
    \/ RunDockerJob
    \/ RemoveJobDir
    \/ CreatePullRequest
    \/ Finish
    \/ Catch

Spec == Init /\ [][Next]_vars

-----------------------------------------------------------------------------
(* normalizeTags on its own: called, then called again on its result *)

MaxTagLen == 4
MaxPairLen == 2

TagChars == {"a", "B", "-", "_", " ", "!"}
PairChars == {"a", "B", "-", "!"}

StringsOver(chars, n) == UNION {[1..k -> chars] : k \in 0..n}

\* "OS_161/scheduling "
ExampleTag == <<"O", "S", "_", "1", "6", "1", "/", "s", "c", "h", "e", "d", "u",
                "l", "i", "n", "g", " ">>

TagInputs ==
    {Arr(<<EStr(t)>>) : t \in StringsOver(TagChars, MaxTagLen) \cup {ExampleTag}}
        \cup {Arr(<<EStr(t), EStr(u)>>) :
                t \in StringsOver(PairChars, MaxPairLen),
                u \in StringsOver(PairChars, MaxPairLen)}
        \cup {Arr(<<ENum(2), EStr(t), ENum(3), EStr(t)>>) :
                t \in StringsOver(PairChars, MaxPairLen)}
        \cup {Arr(<<>>), Undefined, Null, Obj, Int2(1), Bool(TRUE),
              Str(<<"a">>), Str(Misc)}

InitTags ==
    /\ rawTags \in TagInputs
    /\ tagsOut = <<>>
    /\ tagsAgain = <<>>
    /\ tagsPc = "call"
    /\ formattedExamMd = <<>>
    /\ finalExamMd = <<>>
    /\ pc = "idle"
    /\ error = NoError
    /\ examFile = <<>>
    /\ jobDir = "none"
    /\ dockerRuns = 0
    /\ prCreated = 0
    /\ closed = 0
    /\ RateIdle
    /\ DockerIdle

\* normalizeTags(x)
CallNormalizeTags ==
    /\ tagsPc = "call"
    /\ tagsOut' = normalizeTags(rawTags)
    /\ tagsPc' = "again"
    /\ UNCHANGED <<rawTags, tagsAgain>>
    /\ UNCHANGED coreVars
    /\ UNCHANGED libVars

\* normalizeTags(normalizeTags(x)): the first result is the next argument
CallNormalizeTagsAgain ==
    /\ tagsPc = "again"
    /\ tagsAgain' = normalizeTags(Arr(StrElems(tagsOut)))
    /\ tagsPc' = "done"
    /\ UNCHANGED <<rawTags, tagsOut>>
    /\ UNCHANGED coreVars
    /\ UNCHANGED libVars

NextTags == CallNormalizeTags \/ CallNormalizeTagsAgain

SpecTags == InitTags /\ [][NextTags]_vars

-----------------------------------------------------------------------------
(* The three functions of the core on their own: one of them is called on a *)
(* document.  formattedExamMd is the argument, finalExamMd the string       *)
(* returned, error the error thrown.                                        *)

\* pc: which function is about to be called
CoreCalls ==
    {"call normalizeExamMetadataAndTags", "call assertIntegerPoints",
     "call assertNonEmptyAnswers"}

InitCore ==
    /\ formattedExamMd \in InputDocs
    /\ finalExamMd = <<>>
    /\ pc \in CoreCalls
    /\ error = NoError
    /\ examFile = <<>>
    /\ jobDir = "none"
    /\ dockerRuns = 0
    /\ prCreated = 0
    /\ closed = 0
    /\ rawTags = Undefined
    /\ tagsOut = <<>>
    /\ tagsAgain = <<>>
    /\ tagsPc = "idle"
    /\ RateIdle
    /\ DockerIdle

\* normalizeExamMetadataAndTags(examMd), lines 198-298
CallNormalize ==
    /\ pc = "call normalizeExamMetadataAndTags"
    /\ LET r == normalizeExamMetadataAndTags(formattedExamMd)
       IN /\ finalExamMd' = r.text
          /\ error' = r.err
          /\ pc' = IF r.ok THEN "normalizeExamMetadataAndTags returned"
                    ELSE "normalizeExamMetadataAndTags threw"
    /\ UNCHANGED <<formattedExamMd, examFile, jobDir, dockerRuns, prCreated, closed>>
    /\ UNCHANGED tagVars
    /\ UNCHANGED libVars

\* assertIntegerPoints(examMd), lines 108-133
CallAssertIntegerPoints ==
    /\ pc = "call assertIntegerPoints"
    /\ LET e == assertIntegerPoints(formattedExamMd)
       IN /\ error' = e
          /\ pc' = IF e = NoError THEN "assertIntegerPoints returned"
                    ELSE "assertIntegerPoints threw"
    /\ UNCHANGED <<formattedExamMd, finalExamMd, examFile, jobDir, dockerRuns,
                   prCreated, closed>>
    /\ UNCHANGED tagVars
    /\ UNCHANGED libVars

\* assertNonEmptyAnswers(examMd), lines 135-164
CallAssertNonEmptyAnswers ==
    /\ pc = "call assertNonEmptyAnswers"
    /\ LET e == assertNonEmptyAnswers(formattedExamMd)
       IN /\ error' = e
          /\ pc' = IF e = NoError THEN "assertNonEmptyAnswers returned"
                    ELSE "assertNonEmptyAnswers threw"
    /\ UNCHANGED <<formattedExamMd, finalExamMd, examFile, jobDir, dockerRuns,
                   prCreated, closed>>
    /\ UNCHANGED tagVars
    /\ UNCHANGED libVars

NextCore == CallNormalize \/ CallAssertIntegerPoints \/ CallAssertNonEmptyAnswers

SpecCore == InitCore /\ [][NextCore]_vars

-----------------------------------------------------------------------------
(* checkRateLimit on its own: calls for the keys at non-decreasing times,   *)
(* all with the same windowMs and maxRequests.  history keeps, for each     *)
(* call, its key, the time read at line 29, the store before and after and  *)
(* the object returned, and what a limiter without cleanup() returned.      *)

MaxCalls == 3

\* the windowMs and maxRequests the calls pass
WindowChoices == {1500, 60000}
MaxRequestsChoices == {1, 2}

\* ms between two calls, and between the clock reads of lines 12 and 29
Gaps == {0, 1000, 1500, 30000, 60000}
ReadGaps == {0, 1}

InitRate ==
    /\ now = 0
    /\ lastCleanup = 0
    /\ store = EmptyStore
    /\ windowMs \in WindowChoices
    /\ maxRequests \in MaxRequestsChoices
    /\ history = <<>>
    /\ plainStore = EmptyStore
    /\ formattedExamMd = <<>>
    /\ finalExamMd = <<>>
    /\ pc = "idle"
    /\ error = NoError
    /\ examFile = <<>>
    /\ jobDir = "none"
    /\ dockerRuns = 0
    /\ prCreated = 0
    /\ closed = 0
    /\ rawTags = Undefined
    /\ tagsOut = <<>>
    /\ tagsAgain = <<>>
    /\ tagsPc = "idle"
    /\ DockerIdle

\* checkRateLimit(ip, windowMs, maxRequests), lines 22-45: cleanup() reads
\* the clock at line 12, the body reads it again at line 29
CheckRateLimit ==
    /\ Len(history) < MaxCalls
    /\ \E ip \in Keys, gap \in Gaps, readGap \in ReadGaps :
         LET cleanupNow == now + gap
             cleaned == cleanup(store, lastCleanup, cleanupNow)
             bodyNow == cleanupNow + readGap
             r == checkStore(cleaned.store, bodyNow, ip, windowMs, maxRequests)
             plain == checkStore(plainStore, bodyNow, ip, windowMs, maxRequests)
         IN /\ now' = bodyNow
            /\ lastCleanup' = cleaned.lastCleanup
            /\ store' = r.store
            /\ plainStore' = plain.store
            /\ history' = Append(history,
                                 [key |-> ip, at |-> bodyNow, before |-> store,
                                  after |-> r.store, answer |-> r.answer,
                                  plain |-> plain.answer])
    /\ UNCHANGED <<windowMs, maxRequests>>
    /\ UNCHANGED coreVars
    /\ UNCHANGED tagVars
    /\ UNCHANGED dockerVars

NextRate == CheckRateLimit

SpecRate == InitRate /\ [][NextRate]_vars

-----------------------------------------------------------------------------
(* runDockerJob as the handler calls it (process.ts lines 826-840), and the *)
(* handler's catch (lines 881-884): the container writes its output in      *)
(* chunks of any size and exits.                                            *)

MaxOutLen == 3

OutChars == {"t", "k", "\n"}
StdoutChars == {"t", "k"}

\* what the container writes to stdout and to stderr
StdoutTexts == UNION {[1..n -> StdoutChars] : n \in 0..(MaxOutLen - 1)}
StderrTexts == UNION {[1..n -> OutChars] : n \in 0..MaxOutLen}

ExitCodes == {"0", "1"}

InitDocker ==
    /\ stdoutLeft \in StdoutTexts
    /\ stderrLeft \in StderrTexts
    /\ stderr = <<>>
    /\ logged = <<>>
    /\ jobPc = "call"
    /\ jobError = <<>>
    /\ RateIdle
    /\ formattedExamMd = <<>>
    /\ finalExamMd = <<>>
    /\ pc = "idle"
    /\ error = NoError
    /\ examFile = <<>>
    /\ jobDir = "none"
    /\ dockerRuns = 0
    /\ prCreated = 0
    /\ closed = 0
    /\ rawTags = Undefined
    /\ tagsOut = <<>>
    /\ tagsAgain = <<>>
    /\ tagsPc = "idle"

\* lines 10-27: the early throw on Vercel, or the container is spawned
StartDockerJob ==
    /\ jobPc = "call"
    /\ \E vercel \in BOOLEAN :
         IF vercel
         THEN jobPc' = "rejected" /\ jobError' = VercelMessage
         ELSE jobPc' = "running" /\ jobError' = jobError
    /\ UNCHANGED <<stdoutLeft, stderrLeft, stderr, logged>>
    /\ UNCHANGED <<coreVars, tagVars, rateVars>>

\* line 43: a "data" event of stdout with a chunk of any size
StdoutData ==
    /\ jobPc = "running"
    /\ \E n \in 1..Len(stdoutLeft) :
         /\ logged' = logged \o pipe(SubSeq(stdoutLeft, 1, n))
         /\ stdoutLeft' = SubSeq(stdoutLeft, n + 1, Len(stdoutLeft))
    /\ UNCHANGED <<stderrLeft, stderr, jobPc, jobError>>
    /\ UNCHANGED <<coreVars, tagVars, rateVars>>

\* lines 44-47: a "data" event of stderr with a chunk of any size
StderrData ==
    /\ jobPc = "running"
    /\ \E n \in 1..Len(stderrLeft) :
         /\ stderr' = stderr \o SubSeq(stderrLeft, 1, n)
         /\ logged' = logged \o pipe(SubSeq(stderrLeft, 1, n))
         /\ stderrLeft' = SubSeq(stderrLeft, n + 1, Len(stderrLeft))
    /\ UNCHANGED <<stdoutLeft, jobPc, jobError>>
    /\ UNCHANGED <<coreVars, tagVars, rateVars>>

\* lines 49-51: spawn fails, before the container wrote anything
SpawnError ==
    /\ jobPc = "running"
    /\ logged = <<>>
    /\ stderr = <<>>
    /\ jobPc' = "rejected"
    /\ jobError' = SpawnMessage
    /\ UNCHANGED <<stdoutLeft, stderrLeft, stderr, logged>>
    /\ UNCHANGED <<coreVars, tagVars, rateVars>>

\* lines 53-60: "close", after both streams have ended
ChildClose ==
    /\ jobPc = "running"
    /\ stdoutLeft = <<>>
    /\ stderrLeft = <<>>
    /\ \E code \in ExitCodes :
         IF code = "0"
         THEN jobPc' = "resolved" /\ jobError' = jobError
         ELSE jobPc' = "rejected" /\ jobError' = FailedMessage(code, stderr)
    /\ UNCHANGED <<stdoutLeft, stderrLeft, stderr, logged>>
    /\ UNCHANGED <<coreVars, tagVars, rateVars>>

\* process.ts lines 881-883: the catch of the handler logs the error
CatchDockerError ==
    /\ jobPc = "rejected"
    /\ logged' = Append(logged, ErrorLine(jobError))
    /\ jobPc' = "caught"
    /\ UNCHANGED <<stdoutLeft, stderrLeft, stderr, jobError>>
    /\ UNCHANGED <<coreVars, tagVars, rateVars>>

NextDocker ==
    \/ StartDockerJob
    \/ StdoutData
    \/ StderrData
    \/ SpawnError
    \/ ChildClose
    \/ CatchDockerError

SpecDocker == InitDocker /\ [][NextDocker]_vars

-----------------------------------------------------------------------------
(* Reading a document back: what the properties below talk about *)

\* the fenced blocks of a document that parse, in document order
RECURSIVE ParsedBlocks(_, _)
ParsedBlocks(matches, i) ==
    IF i > Len(matches) THEN <<>>
    ELSE LET p == JSONparse(matches[i].body)
         IN (IF p.ok THEN <<p>> ELSE <<>>) \o ParsedBlocks(matches, i + 1)

Blocks(text) == ParsedBlocks(matchAll(text), 1)

IsQuestion(p) == p.v.t = "object" /\ HasKey(p.m, "problem_id")
IsMetadataLike(p) == p.v.t = "object" /\ ~HasKey(p.m, "problem_id")

\* the Question Blocks of a document, in document order
QuestionBlocks(text) == SelectSeq(Blocks(text), IsQuestion)

\* the Metadata Block as the glossary defines it: the first embedded JSON
\* object that lacks problem_id
HasMetadataBlock(text) == \E i \in DOMAIN Blocks(text) : IsMetadataLike(Blocks(text)[i])
MetadataBlock(text) == Head(SelectSeq(Blocks(text), IsMetadataLike))

\* the Metadata Block as the first fenced block of the document
FirstBlockIsMetadata(text) ==
    /\ matchAll(text) # <<>>
    /\ JSONparse(matchAll(text)[1].body).ok
    /\ IsMetadataLike(JSONparse(matchAll(text)[1].body))
FirstBlock(text) == JSONparse(matchAll(text)[1].body)

RECURSIVE SumOfPoints(_)
SumOfPoints(qs) ==
    IF qs = <<>> THEN 0
    ELSE (IF Get(Head(qs).m, "points").t = "number"
             /\ Get(Head(qs).m, "points").n # Infinity
          THEN Get(Head(qs).m, "points").n ELSE 0) + SumOfPoints(Tail(qs))

\* the text outside the matched fenced blocks: the gaps, in order
RECURSIVE GapsFrom(_, _, _)
GapsFrom(text, matches, from) ==
    IF matches = <<>> THEN <<SubSeq(text, from, Len(text))>>
    ELSE <<SubSeq(text, from, Head(matches).index)>>
         \o GapsFrom(text, Tail(matches), Head(matches).index + Head(matches).len + 1)

Outside(text) == GapsFrom(text, matchAll(text), 1)

\* the text of one matched fenced block
BlockText(text, match) == SubSeq(text, match.index + 1, match.index + match.len)

\* ^[a-z0-9-]+$
TagPatternChars ==
    {"a", "b", "c", "d", "e", "f", "g", "h", "i", "j", "k", "l", "m", "n", "o",
     "p", "q", "r", "s", "t", "u", "v", "w", "x", "y", "z", "0", "1", "2", "3",
     "4", "5", "6", "7", "8", "9", "-"}
MatchesTagPattern(s) == Len(s) > 0 /\ \A i \in DOMAIN s : s[i] \in TagPatternChars

NoDuplicates(seq) == \A i, j \in DOMAIN seq : seq[i] = seq[j] => i = j

\* a clean tags list: a non-empty array of distinct strings that match
CleanTagList(v) ==
    /\ v.t = "array"
    /\ Len(v.a) > 0
    /\ \A i \in DOMAIN v.a : v.a[i].t = "string" /\ MatchesTagPattern(v.a[i].s)
    /\ NoDuplicates(v.a)

\* line 750 is done: normalizeExamMetadataAndTags has just returned
\* finalExamMd for formattedExamMd, and line 755 is next
NormalizeReturned == pc = "assertIntegerPoints"
\* the handler is past both guards
PastGuards ==
    pc \in {"mkdtemp", "writeFile", "runDockerJob", "finally",
            "createPullRequest", "done", "end"}
    \/ error.kind \in {"fs", "docker", "pr"}
\* the core has thrown
CoreThrew == error.kind \in {"TypeError", "NonIntegerPoints", "MissingAnswers"}

-----------------------------------------------------------------------------
(* C1 *)

\* C1 as stated: whenever the input has a Metadata Block, the returned
\* document's Metadata Block has score_total equal to the sum of the points
\* of all Question Blocks and num_questions equal to their number.
C1_MetadataConsistentAsStated ==
    (NormalizeReturned /\ HasMetadataBlock(formattedExamMd)) =>
        LET qs == QuestionBlocks(finalExamMd)
            md == MetadataBlock(finalExamMd)
        IN /\ Get(md.m, "score_total") = Num(SumOfPoints(qs))
           /\ Get(md.m, "num_questions") = Int2(Len(qs))

\* C1 amended: when the first fenced block of the input is an object without
\* problem_id and the document has at least one Question Block, then in the
\* returned document that block's num_questions is the number of Question
\* Blocks and its score_total converts, by Number(), to the sum of the
\* numeric points of the Question Blocks.
C1_MetadataConsistent ==
    (/\ NormalizeReturned
     /\ FirstBlockIsMetadata(formattedExamMd)
     /\ QuestionBlocks(formattedExamMd) # <<>>) =>
        LET qs == QuestionBlocks(finalExamMd)
            md == FirstBlock(finalExamMd)
        IN /\ FirstBlockIsMetadata(finalExamMd)
           /\ Get(md.m, "num_questions") = Int2(Len(qs))
           /\ ToNumber(Get(md.m, "score_total")) = Fin(SumOfPoints(qs))

\* a stale score_total and num_questions were repaired over two questions
C1_Witness ==
    /\ NormalizeReturned
    /\ FirstBlockIsMetadata(formattedExamMd)
    /\ Len(QuestionBlocks(formattedExamMd)) = 2
    /\ Get(FirstBlock(formattedExamMd).m, "score_total") = Int2(50)
    /\ Get(FirstBlock(finalExamMd).m, "score_total") = Int2(3)
    /\ Get(FirstBlock(finalExamMd).m, "num_questions") = Int2(2)

-----------------------------------------------------------------------------
(* C2 *)

\* a letter or a digit, in either case: what cleaning keeps of a tag
IsAlphanumeric(c) == c \in TagPatternChars \ {"-"} \/ c \in Range(UpperChars)

\* cleaning leaves nothing of a tags value: it is missing or no list, or no
\* element of it is a string with a letter or a digit
CleansToNothing(tags) ==
    \/ tags.t # "array"
    \/ \A j \in DOMAIN tags.a :
          \/ tags.a[j].t # "string"
          \/ \A k \in DOMAIN tags.a[j].s : ~IsAlphanumeric(tags.a[j].s[k])

\* C2: in the returned document every Question Block's tags is a non-empty
\* list of distinct strings that each match ^[a-z0-9-]+$, and it is ["misc"]
\* for a Question Block whose tags were missing, no list, or cleaned to
\* nothing.
C2_TagClosure ==
    NormalizeReturned =>
        LET before == QuestionBlocks(formattedExamMd)
            after == QuestionBlocks(finalExamMd)
        IN /\ Len(after) = Len(before)
           /\ \A i \in DOMAIN after : CleanTagList(Get(after[i].m, "tags"))
           /\ \A i \in DOMAIN before :
                 CleansToNothing(Get(before[i].m, "tags"))
                    => Get(after[i].m, "tags") = Tags(<<Misc>>)

\* some question had no clean tags list before and has one after, and some
\* question fell back to ["misc"]
C2_Witness ==
    /\ NormalizeReturned
    /\ \E i \in DOMAIN QuestionBlocks(formattedExamMd) :
          /\ Get(QuestionBlocks(formattedExamMd)[i].m, "tags") = DirtyTags
          /\ Get(QuestionBlocks(finalExamMd)[i].m, "tags") = Tags(<<<<"a", "-", "b">>>>)
    /\ \E i \in DOMAIN QuestionBlocks(formattedExamMd) :
          /\ Get(QuestionBlocks(formattedExamMd)[i].m, "tags") = JunkTags
          /\ Get(QuestionBlocks(finalExamMd)[i].m, "tags") = Tags(<<Misc>>)
    /\ \E i \in DOMAIN QuestionBlocks(formattedExamMd) :
          /\ Get(QuestionBlocks(formattedExamMd)[i].m, "tags").t # "array"
          /\ Get(QuestionBlocks(finalExamMd)[i].m, "tags") = Tags(<<Misc>>)

-----------------------------------------------------------------------------
(* C3 *)

\* C3: normalizing the returned document again returns it unchanged.
C3_Idempotent ==
    NormalizeReturned =>
        normalizeExamMetadataAndTags(finalExamMd) = Returned(finalExamMd)

\* the first normalization rewrote tags and metadata
C3_Witness ==
    /\ NormalizeReturned
    /\ finalExamMd # formattedExamMd
    /\ Len(Collected(formattedExamMd).updates) >= 2
    /\ normalizeExamMetadataAndTags(finalExamMd).text = finalExamMd

-----------------------------------------------------------------------------
(* C4 *)

IsFractional(q) ==
    Get(q.m, "points").t = "number" /\ Get(q.m, "points").n % 2 # 0
FractionalQuestions(text) == SelectSeq(QuestionBlocks(text), IsFractional)

\* the pipeline has ended or gone past assertIntegerPoints
PastIntegerGuard == pc \notin {"idle", "normalize", "assertIntegerPoints"}

\* C4 as stated: a document with a Question Block of fractional points ends
\* the pipeline in an error that names such a block's problem_id and value,
\* and no document is returned.
C4_FractionalAlwaysNamed ==
    (PastIntegerGuard /\ FractionalQuestions(formattedExamMd) # <<>>) =>
        /\ pc \in {"catch", "failed"}
        /\ error.kind = "NonIntegerPoints"
        /\ \E i \in DOMAIN FractionalQuestions(formattedExamMd) :
              LET q == FractionalQuestions(formattedExamMd)[i]
              IN /\ error.id = StringOf(Get(q.m, "problem_id"))
                 /\ error.pts = Get(q.m, "points").n

-----------------------------------------------------------------------------
(* C5 *)

HasBlankAnswer(q) ==
    \/ Get(q.m, "answer").t # "string"
    \/ \A i \in DOMAIN Get(q.m, "answer").s : Get(q.m, "answer").s[i] = " "
BlankAnswerQuestions(text) == SelectSeq(QuestionBlocks(text), HasBlankAnswer)

\* how the error message writes a problem_id: as text, "?" when it is null
\* or missing
ListedId(q) ==
    IF Get(q.m, "problem_id").t \in {"null", "undefined"}
    THEN <<"?">>
    ELSE StringOf(Get(q.m, "problem_id"))

\* the pipeline has ended or gone past both guards
PipelineOver == pc \notin {"idle", "normalize", "assertIntegerPoints",
                           "assertNonEmptyAnswers"}

\* C5 as stated: a document with a Question Block whose answer is missing,
\* not a string or blank ends the pipeline in an error that lists the
\* problem_id of every such block, whatever else is wrong with the document.
C5_AnswersAlwaysListed ==
    (PipelineOver /\ BlankAnswerQuestions(formattedExamMd) # <<>>) =>
        /\ error.kind = "MissingAnswers"
        /\ \A i \in DOMAIN BlankAnswerQuestions(formattedExamMd) :
              ListedId(BlankAnswerQuestions(formattedExamMd)[i]) \in Range(error.ids)

\* C5 amended: such a document always ends the pipeline in an error and no
\* document is returned; the error lists the problem_id of every such block
\* whenever normalizeExamMetadataAndTags and assertIntegerPoints have both
\* returned normally, and is the error of whichever of them threw otherwise.
C5_AnswersGate ==
    (PipelineOver /\ BlankAnswerQuestions(formattedExamMd) # <<>>) =>
        /\ pc \in {"catch", "failed"}
        /\ ~PastGuards
        /\ CoreThrew
        /\ error.kind = "MissingAnswers" =>
              \A i \in DOMAIN BlankAnswerQuestions(formattedExamMd) :
                 ListedId(BlankAnswerQuestions(formattedExamMd)[i]) \in Range(error.ids)
        /\ error.kind # "MissingAnswers" =>
              \/ error.kind = "NonIntegerPoints" /\ FractionalQuestions(formattedExamMd) # <<>>
              \/ error.kind = "TypeError" /\ ~normalizeExamMetadataAndTags(formattedExamMd).ok

\* two questions with blank or missing answers and integer points: both are
\* listed
C5_Witness ==
    /\ pc = "catch"
    /\ error.kind = "MissingAnswers"
    /\ Len(error.ids) = 2
    /\ Len(BlankAnswerQuestions(formattedExamMd)) = 2
    /\ finalExamMd # formattedExamMd

-----------------------------------------------------------------------------
(* C6 *)

\* C6: the text outside the matched fenced blocks is the same, gap by gap,
\* in the input and in the returned document, and so is the number of
\* fenced blocks; whatever differs lies inside a rewritten block.
C6_NonInterference ==
    NormalizeReturned =>
        LET before == matchAll(formattedExamMd)
            after == matchAll(finalExamMd)
            updates == Collected(formattedExamMd).updates
        IN /\ Outside(finalExamMd) = Outside(formattedExamMd)
           /\ Len(after) = Len(before)
           /\ \A i \in DOMAIN before :
                 \/ BlockText(finalExamMd, after[i])
                       = BlockText(formattedExamMd, before[i])
                 \/ \E j \in DOMAIN updates : updates[j].start = before[i].index

\* three blocks were rewritten, at least one to a text of another length
C6_Witness ==
    /\ NormalizeReturned
    /\ Len(Collected(formattedExamMd).updates) = 3
    /\ Len(finalExamMd) # Len(formattedExamMd)
    /\ Outside(finalExamMd) = Outside(formattedExamMd)

-----------------------------------------------------------------------------
(* C8 *)

\* exam.md is written, the Docker job has started or a pull request exists
Published == examFile # <<>> \/ dockerRuns > 0 \/ prCreated > 0

\* C8: staging exam.md, the Docker job and the pull request happen only
\* after normalizeExamMetadataAndTags, assertIntegerPoints and
\* assertNonEmptyAnswers have returned normally for the request's document;
\* once one of them has thrown, none of the three happens.
C8_GateBeforePublish ==
    /\ Published =>
          /\ normalizeExamMetadataAndTags(formattedExamMd) = Returned(finalExamMd)
          /\ assertIntegerPoints(finalExamMd) = NoError
          /\ assertNonEmptyAnswers(finalExamMd) = NoError
          /\ PastGuards
    /\ CoreThrew => ~Published /\ pc \in {"catch", "failed"}
    /\ pc \in {"writeFile", "runDockerJob", "createPullRequest"} => ~CoreThrew

\* a normalized document was staged, run through Docker and published
C8_Witness ==
    /\ pc = "end"
    /\ examFile = finalExamMd
    /\ finalExamMd # formattedExamMd
    /\ dockerRuns = 1
    /\ prCreated = 1

-----------------------------------------------------------------------------
(* C9 *)

\* no block needs a change: every Question Block has a clean tags list and
\* the Metadata Block, if there is one, holds the computed counters
NoChangeNeeded(text) ==
    /\ \A i \in DOMAIN QuestionBlocks(text) :
          CleanTagList(Get(QuestionBlocks(text)[i].m, "tags"))
    /\ HasMetadataBlock(text) =>
          /\ Get(MetadataBlock(text).m, "num_questions")
                = Int2(Len(QuestionBlocks(text)))
          /\ Get(MetadataBlock(text).m, "score_total")
                = Num(SumOfPoints(QuestionBlocks(text)))

\* C9 as stated: for a document in which no block needs a change,
\* normalizeExamMetadataAndTags returns the input itself.
C9_NoNeedlessRewrite ==
    (pc \notin {"idle", "normalize"} /\ NoChangeNeeded(formattedExamMd)) =>
        finalExamMd = formattedExamMd

-----------------------------------------------------------------------------
(* C10 *)

\* C10: normalizeTags returns a list of strings for every value, and
\* applying it to its own result returns that result.
C10_TagsTotalIdempotent ==
    /\ tagsPc \in {"again", "done"} =>
          /\ Len(tagsOut) >= 1
          /\ \A i \in DOMAIN tagsOut : Len(tagsOut[i]) >= 1
    /\ tagsPc = "done" => tagsAgain = tagsOut

\* a list of two dirty tags was cleaned to two tags, and cleaned again
C10_Witness ==
    /\ tagsPc = "done"
    /\ rawTags = Arr(<<EStr(<<"-", "B">>), EStr(<<"a", "!">>)>>)
    /\ tagsOut = <<<<"b">>, <<"a">>>>
    /\ tagsAgain = tagsOut

-----------------------------------------------------------------------------
(* C11 *)

NormalizeCalled ==
    pc \in {"normalizeExamMetadataAndTags returned", "normalizeExamMetadataAndTags threw"}

\* a match that parses as JSON and has no problem_id key
IsKeyless(match) ==
    JSONparse(match.body).ok /\ ~IsQuestion(JSONparse(match.body))

\* the locals of normalizeExamMetadataAndTags when its loop is over
AfterLoop(text) == BlockLoop(matchAll(text), 0, LoopStart)

\* C11 as stated: the block taken as the Metadata Block is the first fenced
\* block that parses and has no problem_id key, wherever it sits, and every
\* parseable block with a problem_id key is counted as a Question Block.
C11_MetadataWhereverItSits ==
    (NormalizeCalled /\ ~AfterLoop(formattedExamMd).threw) =>
        LET matches == matchAll(formattedExamMd)
            keyless == SelectSeq(matches, IsKeyless)
            st == AfterLoop(formattedExamMd)
        IN /\ st.hasMetadata <=> keyless # <<>>
           /\ st.hasMetadata => st.metadataMatch = Head(keyless)
           /\ st.questionCount = Len(QuestionBlocks(formattedExamMd))

\* C11 amended: the block taken as the Metadata Block is the first fenced
\* block of the document, and only if it parses and has no problem_id key;
\* when the first fenced block does not parse or is a Question Block, no
\* block is taken as the Metadata Block.  Every parseable block with a
\* problem_id key is counted as a Question Block, wherever it sits.
C11_MetadataIsFirstBlock ==
    (NormalizeCalled /\ ~AfterLoop(formattedExamMd).threw) =>
        LET matches == matchAll(formattedExamMd)
            st == AfterLoop(formattedExamMd)
        IN /\ st.hasMetadata <=> (matches # <<>> /\ IsKeyless(matches[1]))
           /\ st.hasMetadata =>
                 /\ st.metadataMatch = matches[1]
                 /\ st.metadata = JSONparse(matches[1].body)
           /\ st.questionCount = Len(QuestionBlocks(formattedExamMd))

\* an unparseable block, then a stale metadata object, then a question: no
\* block is taken as metadata and the stale counters are returned as they were
C11_Witness ==
    /\ pc = "normalizeExamMetadataAndTags returned"
    /\ Len(matchAll(formattedExamMd)) = 3
    /\ ~JSONparse(matchAll(formattedExamMd)[1].body).ok
    /\ IsKeyless(matchAll(formattedExamMd)[2])
    /\ Get(JSONparse(matchAll(formattedExamMd)[2].body).m, "score_total") = Int2(50)
    /\ IsQuestion(JSONparse(matchAll(formattedExamMd)[3].body))
    /\ ~AfterLoop(formattedExamMd).hasMetadata
    /\ AfterLoop(formattedExamMd).questionCount = 1
    /\ Get(JSONparse(matchAll(finalExamMd)[2].body).m, "score_total") = Int2(50)

-----------------------------------------------------------------------------
(* C12 *)

CoreCalled == pc \in {"normalizeExamMetadataAndTags returned",
                      "normalizeExamMetadataAndTags threw",
                      "assertIntegerPoints returned", "assertIntegerPoints threw",
                      "assertNonEmptyAnswers returned", "assertNonEmptyAnswers threw"}

\* text that is no JSON, told by its units: it holds junk or a fence
HoldsNoJSON(match) ==
    \E i \in DOMAIN match.body : match.body[i].c \in {"junk", "fence_open"}

\* a document all of whose fenced blocks hold no JSON
AllBlocksUnparseable(text) ==
    /\ matchAll(text) # <<>>
    /\ \A i \in DOMAIN matchAll(text) : HoldsNoJSON(matchAll(text)[i])

\* C12: a fenced block that fails JSON parsing adds nothing to questionCount
\* or totalPoints, keeps its text in the returned document, is never named
\* in an error, and makes none of the three functions throw: every error
\* thrown has its cause in a block that parses, and a document whose fenced
\* blocks all fail to parse is returned as it is by the normalizer and
\* passes both guards.
C12_ParseSkip ==
    LET before == matchAll(formattedExamMd)
        after == matchAll(finalExamMd)
        st == AfterLoop(formattedExamMd)
        qs == QuestionBlocks(formattedExamMd)
        parsed == Blocks(formattedExamMd)
    IN /\ (NormalizeCalled /\ ~st.threw) =>
             /\ st.questionCount = Len(qs)
             /\ st.totalPoints = SumOfPoints(qs)
       /\ pc = "normalizeExamMetadataAndTags returned" =>
             /\ Len(after) = Len(before)
             /\ \A i \in DOMAIN before :
                   ~JSONparse(before[i].body).ok =>
                       BlockText(finalExamMd, after[i])
                          = BlockText(formattedExamMd, before[i])
       /\ (CoreCalled /\ error.kind = "TypeError") =>
             \/ \E i \in DOMAIN parsed : parsed[i].v.t = "null"
             \/ JSONparse(before[1].body).ok /\ IsPrimitive(JSONparse(before[1].body).v)
       /\ (CoreCalled /\ error.kind = "NonIntegerPoints") =>
             \E i \in DOMAIN qs :
                /\ IsFractional(qs[i])
                /\ error.id = StringOf(Get(qs[i].m, "problem_id"))
                /\ error.pts = Get(qs[i].m, "points").n
       /\ (CoreCalled /\ error.kind = "MissingAnswers") =>
             \A k \in DOMAIN error.ids :
                \E i \in DOMAIN qs :
                   HasBlankAnswer(qs[i]) /\ error.ids[k] = ListedId(qs[i])
       /\ (CoreCalled /\ AllBlocksUnparseable(formattedExamMd)) =>
             /\ error = NoError
             /\ pc = "normalizeExamMetadataAndTags returned" =>
                   finalExamMd = formattedExamMd

\* a block that does not parse stands between two blocks that are rewritten,
\* and is returned as it was
C12_Witness ==
    /\ pc = "normalizeExamMetadataAndTags returned"
    /\ Len(matchAll(formattedExamMd)) = 3
    /\ HoldsNoJSON(matchAll(formattedExamMd)[2])
    /\ Len(AfterLoop(formattedExamMd).updates) = 2
    /\ AfterLoop(formattedExamMd).questionCount = 2
    /\ BlockText(finalExamMd, matchAll(finalExamMd)[2])
          = BlockText(formattedExamMd, matchAll(formattedExamMd)[2])
    /\ finalExamMd # formattedExamMd

-----------------------------------------------------------------------------
(* C13 *)

\* lines 750-756 are done: the pipeline has returned normally
PipelineReturned == pc = "mkdtemp"

HasNumberPoints(q) == Get(q.m, "points").t = "number"

\* C13 as stated: when the pipeline returns normally, every Question Block's
\* points is a positive integer.
C13_PointsPositiveIntegers ==
    PipelineReturned =>
        \A i \in DOMAIN QuestionBlocks(finalExamMd) :
            LET points == Get(QuestionBlocks(finalExamMd)[i].m, "points")
            IN points.t = "number" /\ points.n % 2 = 0 /\ points.n > 0

\* C13 amended: when the pipeline returns normally, every Question Block of
\* the normalized document whose points is a number has integer points.
C13_NumberPointsAreIntegers ==
    PipelineReturned =>
        \A i \in DOMAIN QuestionBlocks(finalExamMd) :
            LET points == Get(QuestionBlocks(finalExamMd)[i].m, "points")
            IN points.t = "number" => (points.n # Infinity /\ points.n % 2 = 0)

\* a document passed with two questions of integer points and one whose
\* points is a string
C13_Witness ==
    /\ PipelineReturned
    /\ Len(QuestionBlocks(finalExamMd)) = 3
    /\ Len(SelectSeq(QuestionBlocks(finalExamMd), HasNumberPoints)) = 2
    /\ FractionalQuestions(finalExamMd) = <<>>

-----------------------------------------------------------------------------
(* C15 *)

\* the metadata repair of lines 256-281 applies: the first fenced block is an
\* object without problem_id and there is a Question Block
RepairApplies(text) ==
    FirstBlockIsMetadata(text) /\ QuestionBlocks(text) # <<>>

\* C15 as stated, for the documents the repair applies to: the returned
\* counters are the computed numbers, so a counter held as a string is
\* replaced by a number.
C15_CountersBecomeNumbers ==
    (pc = "normalizeExamMetadataAndTags returned" /\ RepairApplies(formattedExamMd)) =>
        LET qs == QuestionBlocks(formattedExamMd)
            out == FirstBlock(finalExamMd).m
        IN /\ Get(out, "num_questions") = Int2(Len(qs))
           /\ Get(out, "score_total") = Num(SumOfPoints(qs))

\* C15 amended: for the documents the repair applies to, the returned
\* num_questions is the computed count as a number; the returned
\* score_total is the stored value when Number() of it is the computed total,
\* a string included, and the computed total otherwise.
C15_StrictCountLooseTotal ==
    (pc = "normalizeExamMetadataAndTags returned" /\ RepairApplies(formattedExamMd)) =>
        LET qs == QuestionBlocks(formattedExamMd)
            in == FirstBlock(formattedExamMd).m
            out == FirstBlock(finalExamMd).m
        IN /\ Get(out, "num_questions") = Int2(Len(qs))
           /\ Get(out, "score_total") =
                 IF ToNumber(Get(in, "score_total")) = Fin(SumOfPoints(qs))
                 THEN Get(in, "score_total")
                 ELSE Num(SumOfPoints(qs))

\* counters held as the strings "3" and "2" over questions worth 1 and 2:
\* num_questions becomes the number 2, score_total stays the string "3"
C15_Witness ==
    /\ pc = "normalizeExamMetadataAndTags returned"
    /\ RepairApplies(formattedExamMd)
    /\ Get(FirstBlock(formattedExamMd).m, "num_questions") = Str(<<"2">>)
    /\ Get(FirstBlock(formattedExamMd).m, "score_total") = Str(<<"3">>)
    /\ Get(FirstBlock(finalExamMd).m, "num_questions") = Int2(2)
    /\ Get(FirstBlock(finalExamMd).m, "score_total") = Str(<<"3">>)

-----------------------------------------------------------------------------
(* C16 *)

AnswersGuardCalled ==
    pc \in {"assertNonEmptyAnswers returned", "assertNonEmptyAnswers threw"}

\* the problem_ids of a list of Question Blocks as the error message writes
\* them, one per block, in the order of the list
RECURSIVE ListedIds(_)
ListedIds(qs) ==
    IF qs = <<>> THEN <<>> ELSE <<ListedId(Head(qs))>> \o ListedIds(Tail(qs))

\* C16 as stated: assertNonEmptyAnswers throws exactly when some Question
\* Block has an answer that is missing, not a string or blank; the error
\* thrown is the one error that lists the problem_id of every such block,
\* once per block, in document order; otherwise the call returns.
C16_AggregateAnswersGuard ==
    AnswersGuardCalled =>
        LET blank == BlankAnswerQuestions(formattedExamMd)
        IN /\ (pc = "assertNonEmptyAnswers threw") <=> (blank # <<>>)
           /\ error = IF blank # <<>> THEN MissingAnswersError(ListedIds(blank))
                                      ELSE NoError

-----------------------------------------------------------------------------
(* C17 *)

IntegerGuardCalled ==
    pc \in {"assertIntegerPoints returned", "assertIntegerPoints threw"}

\* C17 as stated: assertIntegerPoints throws exactly when some Question Block
\* has points that is a number and no integer; the error names the
\* problem_id and the value of the first such block in document order;
\* otherwise the call returns, and no value is changed.
C17_IntegerPointsGuard ==
    IntegerGuardCalled =>
        LET frac == FractionalQuestions(formattedExamMd)
        IN /\ (pc = "assertIntegerPoints threw") <=> (frac # <<>>)
           /\ error = IF frac # <<>>
                      THEN NonIntegerError(StringOf(Get(Head(frac).m, "problem_id")),
                                           Get(Head(frac).m, "points").n)
                      ELSE NoError
           /\ finalExamMd = <<>>

-----------------------------------------------------------------------------
(* C18 *)

\* two spans [start, end) of the original document share no position
Disjoint(u, w) == u.end <= w.start \/ w.end <= u.start

\* every changed span replaced at once: one pass over the original document
\* from offset at, copying what lies outside the spans
RECURSIVE ReplaceAllAtOnce(_, _, _)
ReplaceAllAtOnce(text, updates, at) ==
    IF at >= Len(text) THEN <<>>
    ELSE IF \E i \in DOMAIN updates : updates[i].start = at
         THEN LET u == updates[CHOOSE i \in DOMAIN updates : updates[i].start = at]
              IN u.text \o ReplaceAllAtOnce(text, updates, u.end)
         ELSE <<text[at + 1]>> \o ReplaceAllAtOnce(text, updates, at + 1)

\* the same updates in every order of collection
Reorderings(updates) ==
    {[i \in DOMAIN updates |-> updates[f[i]]] : f \in Permutations(DOMAIN updates)}

\* C18: the spans collected are pairwise disjoint, and the string returned,
\* made by applying the updates one at a time from the highest start offset
\* down, is the original document with every span replaced at once; the
\* same string results from every order of collection.
C18_DescendingIsSimultaneous ==
    (pc = "normalizeExamMetadataAndTags returned") =>
        LET updates == Collected(formattedExamMd).updates
            atOnce == ReplaceAllAtOnce(formattedExamMd, updates, 0)
        IN /\ \A i, j \in DOMAIN updates : i # j => Disjoint(updates[i], updates[j])
           /\ finalExamMd = atOnce
           /\ \A r \in Reorderings(updates) :
                 ApplyUpdates(formattedExamMd, SortUpdates(r)) = atOnce

\* a metadata update collected last for the first span, after the update of
\* a Question Block, both with a new text longer than the span it replaces
C18_Witness ==
    /\ pc = "normalizeExamMetadataAndTags returned"
    /\ LET updates == Collected(formattedExamMd).updates
       IN /\ Len(updates) >= 2
          /\ updates[Len(updates)].start < updates[1].start
          /\ \A i \in DOMAIN updates :
                Len(updates[i].text) > updates[i].end - updates[i].start
          /\ finalExamMd = ReplaceAllAtOnce(formattedExamMd, updates, 0)

-----------------------------------------------------------------------------
(* C19 *)

\* a Question Block whose points adds nothing: missing, no number, or a
\* number that is not finite
AddsNoPoints(q) ==
    \/ Get(q.m, "points").t # "number"
    \/ Get(q.m, "points").n = Infinity

\* the plain sum of the points of a list of Question Blocks
RECURSIVE SumAll(_)
SumAll(qs) ==
    IF qs = <<>> THEN 0 ELSE Get(Head(qs).m, "points").n + SumAll(Tail(qs))

\* C19: when the loop over the blocks has run to its end, questionCount is
\* the number of parseable blocks that have a problem_id key and totalPoints
\* is the sum of the points of those of them whose points is a finite
\* number; the others are counted and add nothing to the sum.
C19_DerivedTotals ==
    (NormalizeCalled /\ ~AfterLoop(formattedExamMd).threw) =>
        LET st == AfterLoop(formattedExamMd)
            qs == QuestionBlocks(formattedExamMd)
            adding == SelectSeq(qs, LAMBDA q : ~AddsNoPoints(q))
        IN /\ st.questionCount = Len(qs)
           /\ st.totalPoints = SumAll(adding)

\* three Question Blocks, one worth 2 points, one without points and one
\* with points 1e999: questionCount is 3 and totalPoints is 2
C19_Witness ==
    /\ NormalizeCalled
    /\ ~AfterLoop(formattedExamMd).threw
    /\ Len(QuestionBlocks(formattedExamMd)) = 3
    /\ \E i, j, k \in 1..3 :
          LET qs == QuestionBlocks(formattedExamMd)
          IN /\ Get(qs[i].m, "points") = Int2(2)
             /\ Get(qs[j].m, "points") = Undefined
             /\ Get(qs[k].m, "points") = Num(Infinity)
    /\ AfterLoop(formattedExamMd).questionCount = 3
    /\ AfterLoop(formattedExamMd).totalPoints = 4

-----------------------------------------------------------------------------
(* C20 *)

\* the matches that are to be ignored: they parse, have no problem_id key,
\* and are not the Metadata Block, the first object without problem_id
IgnoredMatches(text) ==
    LET matches == matchAll(text)
        objects == {i \in DOMAIN matches :
                      /\ JSONparse(matches[i].body).ok
                      /\ IsMetadataLike(JSONparse(matches[i].body))}
    IN {i \in DOMAIN matches :
          /\ JSONparse(matches[i].body).ok
          /\ ~IsQuestion(JSONparse(matches[i].body))
          /\ (i \notin objects \/ \E j \in objects : j < i)}

\* C20 as stated: a block to be ignored makes none of the three functions
\* throw, so none of them ever ends in a TypeError, and the normalizer
\* returns the text of every such block as it was.
C20_IgnoredBlocks ==
    CoreCalled =>
        /\ error.kind # "TypeError"
        /\ (pc = "normalizeExamMetadataAndTags returned") =>
              LET before == matchAll(formattedExamMd)
                  after == matchAll(finalExamMd)
              IN /\ Len(after) = Len(before)
                 /\ \A i \in IgnoredMatches(formattedExamMd) :
                       BlockText(finalExamMd, after[i])
                          = BlockText(formattedExamMd, before[i])

-----------------------------------------------------------------------------
(* C21 *)

\* exam.md has been written into the job directory
ExamStaged == examFile # <<>>

\* C21: the two guards leave the normalized document as it is, and the
\* exam.md staged for the Docker job is the string that
\* normalizeExamMetadataAndTags returned for the document handed in.
C21_StagedIsNormalized ==
    /\ (pc \in {"assertNonEmptyAnswers", "mkdtemp", "writeFile"}) =>
          finalExamMd = normalizeExamMetadataAndTags(formattedExamMd).text
    /\ ExamStaged =>
          /\ PastGuards
          /\ examFile = finalExamMd
          /\ examFile = normalizeExamMetadataAndTags(formattedExamMd).text

\* a staged exam.md that differs from the document handed in
C21_Witness ==
    /\ ExamStaged
    /\ pc = "runDockerJob"
    /\ examFile # formattedExamMd
    /\ examFile = finalExamMd

-----------------------------------------------------------------------------
(* C22 *)

\* a parsed block whose tags need a fix: a Question Block whose tags is not
\* a clean list
TagsNeedFix(p) == p.ok /\ IsQuestion(p) /\ ~CleanTagList(Get(p.m, "tags"))

\* the counters of the first block need a fix: it is the metadata object,
\* there is a Question Block, and a counter differs from the computed value
CountersNeedFix(text) ==
    /\ RepairApplies(text)
    /\ \/ Get(FirstBlock(text).m, "num_questions")
             # Int2(Len(QuestionBlocks(text)))
       \/ ToNumber(Get(FirstBlock(text).m, "score_total"))
             # Fin(SumOfPoints(QuestionBlocks(text)))

\* out is in with every needed fix made and nothing else touched
FullyNormalized(in, out) ==
    LET before == matchAll(in)
        after == matchAll(out)
    IN /\ Outside(out) = Outside(in)
       /\ Len(after) = Len(before)
       /\ \A i \in DOMAIN before :
             LET p == JSONparse(before[i].body)
                 q == JSONparse(after[i].body)
             IN IF TagsNeedFix(p)
                THEN q.ok /\ IsQuestion(q) /\ CleanTagList(Get(q.m, "tags"))
                ELSE IF i = 1 /\ CountersNeedFix(in)
                THEN /\ q.ok
                     /\ Get(q.m, "num_questions") = Int2(Len(QuestionBlocks(in)))
                     /\ ToNumber(Get(q.m, "score_total"))
                           = Fin(SumOfPoints(QuestionBlocks(in)))
                ELSE BlockText(out, after[i]) = BlockText(in, before[i])

\* C22 as stated: once normalizeExamMetadataAndTags has run, either it threw
\* and there is no document, or the document it returned has every needed
\* fix made and every other block untouched; when a guard throws, no
\* document is staged or published.
C22_AllOrNothing ==
    (pc \notin {"idle", "normalize"}) =>
        /\ \/ /\ error.kind = "TypeError"
              /\ finalExamMd = <<>>
              /\ pc \in {"catch", "failed"}
           \/ FullyNormalized(formattedExamMd, finalExamMd)
        /\ CoreThrew =>
              /\ pc \in {"catch", "failed"}
              /\ examFile = <<>>
              /\ prCreated = 0

-----------------------------------------------------------------------------
(* C23 *)

\* the words of a tag joined by single hyphens, read off in one pass: a
\* letter or digit is kept in lower case, after a hyphen if a separator or
\* hyphen was passed since the last kept character; any other character is
\* passed over
RECURSIVE JoinWords(_, _, _)
JoinWords(s, out, gap) ==
    IF s = <<>> THEN out
    ELSE IF IsAlphanumeric(Head(s))
         THEN JoinWords(Tail(s),
                        out \o (IF gap /\ out # <<>> THEN <<"-">> ELSE <<>>)
                            \o <<LowerChar(Head(s))>>,
                        FALSE)
         ELSE IF Head(s) \in {"-", "_", "/", " ", "\t", "\n", "\r"}
              THEN JoinWords(Tail(s), out, TRUE)
              ELSE JoinWords(Tail(s), out, gap)

\* "os-161-scheduling"
ExampleCleaned == <<"o", "s", "-", "1", "6", "1", "-", "s", "c", "h", "e", "d",
                    "u", "l", "i", "n", "g">>

\* C23: for a list of one tag string, normalizeTags returns the one string
\* that lowercasing, turning runs of separators into a hyphen, dropping
\* what is outside [a-z0-9-], collapsing hyphens and trimming hyphens leave
\* of it: its words, in lower case, joined by single hyphens (["misc"] when
\* nothing is left); "OS_161/scheduling " gives "os-161-scheduling".
C23_CleanedTag ==
    (tagsPc # "call" /\ rawTags.t = "array" /\ Len(rawTags.a) = 1
        /\ rawTags.a[1].t = "string") =>
        LET words == JoinWords(rawTags.a[1].s, <<>>, FALSE)
        IN /\ tagsOut = IF words = <<>> THEN <<Misc>> ELSE <<words>>
           /\ rawTags.a[1].s = ExampleTag => tagsOut = <<ExampleCleaned>>

\* the example tag has been cleaned
C23_Witness ==
    /\ tagsPc # "call"
    /\ rawTags = Arr(<<EStr(ExampleTag)>>)
    /\ tagsOut = <<ExampleCleaned>>

-----------------------------------------------------------------------------
(* C24 *)

\* the cleaned form of each element of a raw list, empty for what is no string
CleanedForms(elems) ==
    [i \in DOMAIN elems |->
        IF elems[i].t = "string" THEN JoinWords(elems[i].s, <<>>, FALSE) ELSE <<>>]

\* the positions whose cleaned form is not empty and was not seen before
FirstSeen(forms) ==
    {i \in DOMAIN forms : forms[i] # <<>> /\ \A j \in 1..(i - 1) : forms[j] # forms[i]}

\* C24: for a list, normalizeTags returns the distinct non-empty cleaned
\* tags in first-seen order: the k-th entry is the cleaned form at the k-th
\* position that holds a non-empty form not seen before (["misc"] when
\* there is no such position).
C24_FirstSeenOrder ==
    (tagsPc # "call" /\ rawTags.t = "array") =>
        LET forms == CleanedForms(rawTags.a)
            firsts == FirstSeen(forms)
        IN IF firsts = {} THEN tagsOut = <<Misc>>
           ELSE /\ Len(tagsOut) = Cardinality(firsts)
                /\ \A i \in firsts :
                      tagsOut[Cardinality({j \in firsts : j < i}) + 1] = forms[i]

\* two different raw tags that clean to the same string give one entry
C24_Witness ==
    /\ tagsPc # "call"
    /\ rawTags.t = "array"
    /\ Len(rawTags.a) = 2
    /\ rawTags.a[1] # rawTags.a[2]
    /\ CleanedForms(rawTags.a)[1] = CleanedForms(rawTags.a)[2]
    /\ Len(tagsOut) = 1
    /\ tagsOut # <<Misc>>

-----------------------------------------------------------------------------
(* C25 *)

\* C25 as stated: for a document without a Question Block,
\* normalizeExamMetadataAndTags returns the document itself.
C25_NoQuestionsNoRewrite ==
    (NormalizeCalled /\ QuestionBlocks(formattedExamMd) = <<>>) =>
        /\ pc = "normalizeExamMetadataAndTags returned"
        /\ finalExamMd = formattedExamMd

-----------------------------------------------------------------------------
(* C26 *)

\* call i of the history set resetAt: it opened a window for its key
OpensWindow(i) ==
    LET call == history[i]
    IN /\ call.after[call.key].present
       /\ \/ ~call.before[call.key].present
          \/ call.after[call.key].resetAt # call.before[call.key].resetAt

\* the calls from call i on, for the same key, answered allowed before the
\* resetAt that call i set
AllowedInWindow(i) ==
    {j \in i..Len(history) :
        /\ history[j].key = history[i].key
        /\ history[j].answer.allowed
        /\ history[j].at < history[i].at + windowMs}

\* C26: at most maxRequests calls are answered allowed between a call that
\* opens a window and that window's resetAt; a call for a key at or after
\* the resetAt of its entry is allowed and opens a new window with count 1.
C26_WindowBound ==
    \A i \in DOMAIN history :
        LET call == history[i]
            entry == call.before[call.key]
        IN /\ OpensWindow(i) =>
                 /\ call.answer.allowed
                 /\ call.after[call.key] = Entry(1, call.at + windowMs)
                 /\ Cardinality(AllowedInWindow(i)) <= maxRequests
           /\ (entry.present /\ call.at >= entry.resetAt) =>
                 /\ call.answer.allowed
                 /\ call.after[call.key] = Entry(1, call.at + windowMs)

\* a window of two requests was used up, and the call made exactly at its
\* resetAt opened the next one
C26_Witness ==
    /\ Len(history) = 3
    /\ maxRequests = 2
    /\ history[1].key = history[3].key
    /\ Cardinality(AllowedInWindow(1)) = 2
    /\ history[3].at = history[3].before[history[3].key].resetAt
    /\ history[3].answer.allowed
    /\ store[history[3].key] = Entry(1, history[3].at + windowMs)

-----------------------------------------------------------------------------
(* C27 *)

\* what C27 says of the object returned: a denied call returns a retryAfter
\* that is an integer of at least 1, an allowed call returns none
RetryAfterAsClaimed(call) ==
    IF call.answer.allowed
    THEN call.answer.retryAfter = <<>>
    ELSE /\ Len(call.answer.retryAfter) = 1
         /\ call.answer.retryAfter[1] \in Nat \ {0}

\* C27 as stated: a denied call leaves the store as it was.
C27_DeniedLeavesStore ==
    \A i \in DOMAIN history :
        /\ RetryAfterAsClaimed(history[i])
        /\ ~history[i].answer.allowed => history[i].after = history[i].before

\* C27 amended: a denied call leaves the entry of its own key as it was,
\* count and resetAt, and leaves every other key's entry as it was or, if
\* that entry's resetAt has passed, removes it.
C27_DeniedLeavesOwnEntry ==
    \A i \in DOMAIN history :
        LET call == history[i]
        IN /\ RetryAfterAsClaimed(call)
           /\ ~call.answer.allowed =>
                 /\ call.after[call.key] = call.before[call.key]
                 /\ \A k \in Keys \ {call.key} :
                       \/ call.after[k] = call.before[k]
                       \/ /\ call.after[k] = Absent
                          /\ call.at >= call.before[k].resetAt

\* a denied call during which cleanup removed the other key's entry
C27_Witness ==
    /\ history # <<>>
    /\ LET call == history[Len(history)]
       IN /\ ~call.answer.allowed
          /\ call.after[call.key] = call.before[call.key]
          /\ \E k \in Keys \ {call.key} :
                call.before[k].present /\ call.after[k] = Absent

-----------------------------------------------------------------------------
(* C28 *)

\* C28: every call is answered as a limiter without cleanup answers it;
\* an entry that a call removes has a resetAt that has passed, and a call
\* leaves the entry of another key whose window is open as it was.
C28_CleanupTransparent ==
    \A i \in DOMAIN history :
        LET call == history[i]
        IN /\ call.answer = call.plain
           /\ \A k \in Keys :
                 (call.before[k].present /\ ~call.after[k].present) =>
                     call.at >= call.before[k].resetAt
           /\ \A k \in Keys \ {call.key} :
                 (call.before[k].present /\ call.at < call.before[k].resetAt) =>
                     call.after[k] = call.before[k]

\* cleanup has removed an entry that the limiter without cleanup still
\* holds, and a call was denied after that
C28_Witness ==
    /\ history # <<>>
    /\ ~history[Len(history)].answer.allowed
    /\ \E k \in Keys : plainStore[k].present /\ ~store[k].present

-----------------------------------------------------------------------------
(* C29 *)

\* the string s holds the string value
Contains(s, value) ==
    \E i \in 1..(Len(s) - Len(value) + 1) : SubSeq(s, i, i + Len(value) - 1) = value

\* a logged string that is the handler's error line
IsErrorLine(s) == Len(s) >= 2 /\ SubSeq(s, 1, 2) = <<"\n", "Error: ">>

\* C29 as stated: no string handed to log holds the GitHub token, whatever
\* the chunks and the exit code.
C29_NoTokenInLog ==
    \A i \in DOMAIN logged : ~Contains(logged[i], githubToken)

-----------------------------------------------------------------------------
(* C30: publish ordering and cleanup *)

\* the pull request is attempted only when the Docker job has run once and
\* resolved, and after the removal attempt
PublishAfterDocker ==
    (pc = "createPullRequest" \/ prCreated' # prCreated)
        => dockerRuns = 1 /\ error = NoError /\ jobDir \in {"removed", "left"}

\* every step out of the try block of lines 801-840 goes to the finally
\* block, and the step taken there is the removal attempt
RemovalFirst ==
    /\ pc \in {"writeFile", "runDockerJob"} => pc' \in {"runDockerJob", "finally"}
    /\ pc = "finally" => jobDir' \in {"removed", "left"}

\* controller.close() is called on a stream not yet closed, by the step that
\* logs the success line or the error line
CloseAfterLastLine ==
    closed' # closed =>
        /\ closed = 0
        /\ closed' = 1
        /\ Len(logged') = Len(logged) + 1
        /\ LET last == logged'[Len(logged')]
           IN IF error = NoError THEN last = DoneLine ELSE IsErrorLine(last)

====
